---- MODULE Spec2Model ----
(***************************************************************************)
(* Orchestration core of the earnings-call analysis pipeline               *)
(* (src/analysis_engine.py): the two cache tiers, the retried ingestion    *)
(* steps, the prediction call, persistence, backtest and cache population, *)
(* for the suspend-capable entry point analyze_earnings_async and the      *)
(* blocking entry point analyze_earnings, and the service enrichment.      *)
(***************************************************************************)
EXTENDS Integers, Sequences, FiniteSets, TLC

(* ------------------------------ bounds -------------------------------- *)
\* invocations started in one behaviour
MaxInvocations == 2
\* largest attempts argument handed to _retry when it is run on its own
MaxRetryAttempts == 4

(* ------------------------- program constants --------------------------- *)
\* _retry(func, attempts: int = 3, ...)
RetryAttempts == 3

\* the tasks that can run an invocation
Procs == {"t1", "t2"}
\* the caller whose invocations follow one another
Caller == "t1"

(* ------------------------------ values --------------------------------- *)
\* Python None
None == [kind |-> "none"]

\* ticker symbols as character sequences; <<>> is the empty string
Symbols == {<<>>, <<"a">>, <<"A">>}
Years == {2024}
Quarters == {1, 2}
\* the (symbol, year, quarter) arguments callers pass
Requests == {<<<<"a">>, 2024, 1>>, <<<<"A">>, 2024, 1>>, <<<<"A">>, 2024, 2>>, <<<<>>, 2024, 1>>}
\* transcript_text values handed back by the context builder
Transcripts == {<<>>, <<" ">>, <<"x">>}
\* transcript_date values ("" stands for an absent date)
Dates == {"2024-05-01"}
\* prediction field of the bridge's result
Predictions == {"UP"}
\* the two entry points of the orchestrator
Entries == {"async", "sync"}
\* exception kinds of the ingestion collaborators
IngestErrors == {"Neo4jIngestError", "Exception"}

\* str.upper(), character by character
UpperChar(c) == CASE c = "a" -> "A" [] OTHER -> c
Upper(s) == [i \in DOMAIN s |-> UpperChar(s[i])]

\* str.strip(): drop leading and trailing blanks
RECURSIVE LStrip(_)
LStrip(s) == IF s # <<>> /\ Head(s) = " " THEN LStrip(Tail(s)) ELSE s
RECURSIVE RStrip(_)
RStrip(s) == IF s # <<>> /\ s[Len(s)] = " " THEN RStrip(SubSeq(s, 1, Len(s) - 1)) ELSE s
Strip(s) == RStrip(LStrip(s))

\* cache_key = f"call:{symbol.upper()}:{year}:Q{quarter}"
CacheKey(symbol, year, quarter) == <<"call", Upper(symbol), year, quarter>>
\* the durable tier's key (symbol, fiscal year, fiscal quarter)
DbKey(symbol, year, quarter) == <<Upper(symbol), year, quarter>>

T1Keys == {CacheKey(s, y, q) : s \in Symbols, y \in Years, q \in Quarters}
T2Keys == {DbKey(s, y, q) : s \in Symbols, y \in Years, q \in Quarters}

\* any mapping counted as a hit, whatever its symbol field
IsHitAnyDict(e) == e.kind = "dict"

\* isinstance(x, dict) and x.get("symbol")
IsHit(e) == e.kind = "dict" /\ e.symbol # <<>>

\* the check without strip(): whitespace-only text passes
TranscriptIsEmptyNoStrip(t) == t = <<>>

\* not transcript_text.strip(), with transcript_text = context.get(...) or ""
TranscriptIsEmpty(t) == Strip(t) = <<>>

VARIABLES
    tier1,        \* Redis: cache key -> payload or None
    tier2,        \* DB cache: (symbol, year, quarter) -> payload or None
    persisted,    \* job ids recorded by record_analysis
    nextJob,      \* uuid4(): the next fresh job id
    started,      \* invocations started so far
    pc,           \* per invocation: the step it is at
    args,         \* per invocation: entry point and arguments
    seen,         \* per invocation: what the Tier-1 / Tier-2 lookups returned
    ctx,          \* per invocation: the context (transcript, date, warning)
    retry,        \* per invocation: _retry's attempt count and last_exc
    work,         \* per invocation: job id, skip toggle, agentic result, backtest
    ret,          \* per invocation: returned payload or raised error
    log,          \* per invocation: collaborator calls made, in order
    flags,        \* ENABLE_PERFORMANCE_METRICS, ENABLE_BACKTESTER_VALIDATION
    enr,          \* one run of enrich_analysis_with_services
    rt,           \* one run of _retry(func, attempts, delay) on its own
    world,        \* what the data source and the agent will answer
    br            \* one run of the bridge's output normalisation

core == <<tier1, tier2, persisted, nextJob, started,
          pc, args, seen, ctx, retry, work, ret, log>>
pure == <<world, br>>
services == <<flags, enr, rt, pure>>
vars == <<core, services>>

shared == <<tier1, tier2, persisted, services>>

NoArgs == [entry |-> "async", symbol |-> <<>>, year |-> 2024, quarter |-> 1,
           skip_cache |-> FALSE]
NoSeen == [t1 |-> None, t2 |-> None]
NoCtx == [transcript_text |-> <<>>, transcript_date |-> "", ingest_warning |-> <<>>,
          post_earnings_return |-> None]
NoRetry == [attempts |-> 0, last_exc |-> "none"]
NoWork == [job_id |-> 0, skip_neo4j_ingest |-> FALSE, prediction |-> "none", backtest |-> "none",
           correct |-> "None"]
NoRet == [status |-> "none", payload |-> None, stage |-> "none", error |-> "none",
          cause |-> "none"]

\* a key the payload does not hold
Absent == [kind |-> "absent"]
\* a coroutine of the fan-out before it has run
NewTask == [pc |-> "created", client |-> "not_called", result |-> None]
NoEnr == [pc |-> "idle", payload |-> None, prediction |-> "none",
          metrics |-> NewTask, validation |-> NewTask]
\* the data source holds no post-earnings return and the agent predicts UP
DefaultWorld == [post_earnings_return |-> None, predictions |-> Predictions]
\* the bridge's output normalisation before it has run
NoBr == [pc |-> "idle", input |-> None, summary |-> None, long_json |-> None,
         sector |-> None, out |-> None]
\* _retry before it is called
NoRt == [pc |-> "idle", attempts |-> 0, delay |-> 0, i |-> 0, last_exc |-> None,
         trace |-> <<>>, out |-> None]

InitCore ==
    /\ tier1 = [k \in T1Keys |-> None]
    /\ tier2 = [k \in T2Keys |-> None]
    /\ persisted = {}
    /\ nextJob = 1
    /\ started = 0
    /\ pc = [p \in Procs |-> "idle"]
    /\ args = [p \in Procs |-> NoArgs]
    /\ seen = [p \in Procs |-> NoSeen]
    /\ ctx = [p \in Procs |-> NoCtx]
    /\ retry = [p \in Procs |-> NoRetry]
    /\ work = [p \in Procs |-> NoWork]
    /\ ret = [p \in Procs |-> NoRet]
    /\ log = [p \in Procs |-> <<>>]

\* the feature flags at their defaults ("true")
Init ==
    /\ InitCore
    /\ flags = [metrics |-> TRUE, validation |-> TRUE]
    /\ enr = NoEnr
    /\ rt = NoRt
    /\ world = DefaultWorld
    /\ br = NoBr

(* --------------------------- helpers ----------------------------------- *)
Active(p) == pc[p] \notin {"idle", "done", "fail"}

\* an executor map in which the retry delay of the async path is a plain
\* synchronous call on the scheduler thread
ExecSleepOnScheduler(entry, op) ==
    IF entry = "sync" THEN "caller"
    ELSE CASE op \in {"cache_get_json", "cache_set_json", "get_earnings_context"} -> "awaited"
           [] op \in {"get_cached_payload", "set_cached_payload", "time.sleep"} -> "scheduler"
           [] OTHER -> "worker"

\* where a collaborator call runs: "awaited" (a coroutine awaited on the
\* scheduler), "worker" (asyncio.to_thread), "scheduler" (a plain synchronous
\* call made on the scheduler thread), "caller" (the blocking entry point)
Exec(entry, op) ==
    IF entry = "sync" THEN "caller"
    ELSE CASE op \in {"cache_get_json", "cache_set_json", "get_earnings_context"} -> "awaited"
           [] op \in {"get_cached_payload", "set_cached_payload"} -> "scheduler"
           [] OTHER -> "worker"

\* one collaborator call: what was called, where it ran, whether it returned (ok)
\* or raised
Call(p, op, ok) == [op |-> op, on |-> Exec(args[p].entry, op), ok |-> ok]
Logged(p, op, ok) == [log EXCEPT ![p] = Append(@, Call(p, op, ok))]
\* a failed attempt inside _retry: func() raised, then time.sleep(delay)
LoggedFailedAttempt(p, op) ==
    [log EXCEPT ![p] = @ \o <<Call(p, op, FALSE), Call(p, "time.sleep", TRUE)>>]

\* an exception reaching the caller: the step it left, its type and its
\* __cause__ (set by "raise ... from exc")
RaisedFrom(stage, error, cause) ==
    [status |-> "fail", payload |-> None, stage |-> stage, error |-> error, cause |-> cause]
Raised(stage, error) == RaisedFrom(stage, error, "none")
Returned(payload) ==
    [status |-> "done", payload |-> payload, stage |-> "none", error |-> "none",
     cause |-> "none"]

\* _add_ingest_warning(msg): the warning string as the list of its messages,
\* f"{old} | {msg}" appending one
AddIngestWarning(warning, msg) ==
    IF msg = <<>> THEN warning
    ELSE IF warning # <<>> THEN warning \o msg ELSE msg

\* context.setdefault("ingest_warning", msg)
SetDefaultWarning(warning, msg) == IF warning # <<>> THEN warning ELSE msg

\* str(exc) of an exception raised by the historical backfill / the live ingest
HistoricalExcText == "history unavailable"
LiveExcText == "neo4j unavailable"

\* f"Historical ingest failed: {exc}", the same for both except branches
HistoricalMsg(exc) == <<[prefix |-> "Historical ingest failed: ", text |-> HistoricalExcText]>>
\* str(exc) for a Neo4jIngestError, f"Neo4j ingestion failed: {exc}" otherwise
LiveMsg(exc) ==
    IF exc = "Neo4jIngestError" THEN <<[prefix |-> "", text |-> LiveExcText]>>
    ELSE <<[prefix |-> "Neo4j ingestion failed: ", text |-> LiveExcText]>>

\* the payload dict built from the arguments, the context and the results
BuildPayload(a, c, w, backtest) ==
    [kind |-> "dict", symbol |-> a.symbol, year |-> a.year, quarter |-> a.quarter,
     transcript_date |-> c.transcript_date, job_id |-> w.job_id,
     prediction |-> w.prediction, ingest_warning |-> c.ingest_warning,
     backtest |-> backtest]

(* --------------------------- operations -------------------------------- *)
\* the cache lookup made whether or not a forced refresh is requested
FirstStepIgnoreSkip(entry, skip_cache) == IF entry = "async" THEN "t1_read" ELSE "context"

\* a caller invokes analyze_earnings_async / analyze_earnings
FirstStep(entry, skip_cache) ==
    IF entry = "async" /\ ~skip_cache THEN "t1_read" ELSE "context"

Start(p) ==
    /\ p = Caller
    /\ ~Active(p)
    /\ started < MaxInvocations
    /\ \E entry \in Entries, r \in Requests, skip_cache \in BOOLEAN :
        /\ entry = "sync" => ~skip_cache
        /\ args' = [args EXCEPT ![p] = [entry |-> entry, symbol |-> r[1],
                       year |-> r[2], quarter |-> r[3], skip_cache |-> skip_cache]]
        /\ pc' = [pc EXCEPT ![p] = FirstStep(entry, skip_cache)]
    /\ started' = started + 1
    /\ seen' = [seen EXCEPT ![p] = NoSeen]
    /\ ctx' = [ctx EXCEPT ![p] = NoCtx]
    /\ retry' = [retry EXCEPT ![p] = NoRetry]
    /\ work' = [work EXCEPT ![p] = NoWork]
    /\ ret' = [ret EXCEPT ![p] = NoRet]
    /\ log' = [log EXCEPT ![p] = <<>>]
    /\ UNCHANGED <<shared, nextJob>>

\* the lookup without the early return on a hit
AfterT1ReadNoShortCircuit(entry) == "t2_read"

\* cached_payload = await cache_get_json(cache_key)
AfterT1Read(entry) == IF IsHit(entry) THEN "done" ELSE "t2_read"

T1Read(p) ==
    /\ pc[p] = "t1_read"
    /\ \/ \* the read raises: nothing catches it
          /\ log' = Logged(p, "cache_get_json", FALSE)
          /\ pc' = [pc EXCEPT ![p] = "fail"]
          /\ ret' = [ret EXCEPT ![p] = Raised("cache_get_json", "Exception")]
          /\ UNCHANGED seen
       \/ LET e == tier1[CacheKey(args[p].symbol, args[p].year, args[p].quarter)] IN
          /\ log' = Logged(p, "cache_get_json", TRUE)
          /\ seen' = [seen EXCEPT ![p].t1 = e]
          /\ pc' = [pc EXCEPT ![p] = AfterT1Read(e)]
          /\ ret' = [ret EXCEPT ![p] = IF AfterT1Read(e) = "done" THEN Returned(e) ELSE @]
    /\ UNCHANGED <<shared, nextJob, started, args, ctx, retry, work>>

\* db_cached = get_cached_payload(...), None when it raises
AfterT2Read(entry) == IF IsHit(entry) THEN "t1_backfill" ELSE "context"

T2Read(p) ==
    /\ pc[p] = "t2_read"
    /\ \E ok \in BOOLEAN :
        LET e == IF ok THEN tier2[DbKey(args[p].symbol, args[p].year, args[p].quarter)]
                 ELSE None IN
        /\ log' = Logged(p, "get_cached_payload", ok)
        /\ seen' = [seen EXCEPT ![p].t2 = e]
        /\ pc' = [pc EXCEPT ![p] = AfterT2Read(e)]
    /\ UNCHANGED <<shared, nextJob, started, args, ctx, retry, work, ret>>

\* the back-fill without its try/except: a write that raises fails the call
T1BackfillUnguarded(p) ==
    /\ pc[p] = "t1_backfill"
    /\ \E ok \in BOOLEAN :
        /\ log' = Logged(p, "cache_set_json", ok)
        /\ tier1' = IF ok
                    THEN [tier1 EXCEPT ![CacheKey(args[p].symbol, args[p].year, args[p].quarter)] = seen[p].t2]
                    ELSE tier1
        /\ pc' = [pc EXCEPT ![p] = IF ok THEN "done" ELSE "fail"]
        /\ ret' = [ret EXCEPT ![p] = IF ok THEN Returned(seen[p].t2)
                                      ELSE Raised("cache_set_json", "Exception")]
    /\ UNCHANGED <<tier2, persisted, services, nextJob, started, args, seen, ctx, retry, work>>

\* await cache_set_json(cache_key, db_cached, TTL) in try/except; return db_cached
T1Backfill(p) ==
    /\ pc[p] = "t1_backfill"
    /\ \E ok \in BOOLEAN :
        /\ log' = Logged(p, "cache_set_json", ok)
        /\ tier1' = IF ok
                    THEN [tier1 EXCEPT ![CacheKey(args[p].symbol, args[p].year, args[p].quarter)] = seen[p].t2]
                    ELSE tier1
    /\ pc' = [pc EXCEPT ![p] = "done"]
    /\ ret' = [ret EXCEPT ![p] = Returned(seen[p].t2)]
    /\ UNCHANGED <<tier2, persisted, services, nextJob, started, args, seen, ctx, retry, work>>

\* job_id = str(uuid4()); context = get_earnings_context[_async](symbol, year, quarter)
Context(p) ==
    /\ pc[p] = "context"
    /\ work' = [work EXCEPT ![p].job_id = nextJob]
    /\ nextJob' = nextJob + 1
    /\ \/ \* the context builder raises: nothing catches it
          /\ log' = Logged(p, "get_earnings_context", FALSE)
          /\ pc' = [pc EXCEPT ![p] = "fail"]
          /\ ret' = [ret EXCEPT ![p] = Raised("get_earnings_context", "Exception")]
          /\ UNCHANGED ctx
       \/ \E t \in Transcripts, d \in Dates :
          /\ log' = Logged(p, "get_earnings_context", TRUE)
          /\ ctx' = [ctx EXCEPT ![p] = [transcript_text |-> t, transcript_date |-> d,
                                         ingest_warning |-> <<>>,
                                         post_earnings_return |-> world.post_earnings_return]]
          /\ pc' = [pc EXCEPT ![p] = "guard"]
          /\ UNCHANGED ret
    /\ UNCHANGED <<shared, started, args, seen, retry>>

\* the ingestion steps entered whatever the toggle says
AfterGuardIgnoreToggle(t, skip_neo4j_ingest) == IF TranscriptIsEmpty(t) THEN "fail" ELSE "hist"

\* run_agentic_rag: the empty-transcript check, then the skip toggle
AfterGuard(t, skip_neo4j_ingest) ==
    IF TranscriptIsEmpty(t) THEN "fail"
    ELSE IF skip_neo4j_ingest THEN "predict" ELSE "hist"

\* skip_neo4j_ingest = os.getenv("USE_PG_DB_AGENTS", "false").lower() == "true":
\* the value the environment holds while this call runs (read after the check)
Guard(p) ==
    /\ pc[p] = "guard"
    /\ \E skip \in BOOLEAN :
        /\ pc' = [pc EXCEPT ![p] = AfterGuard(ctx[p].transcript_text, skip)]
        /\ work' = [work EXCEPT ![p].skip_neo4j_ingest = skip]
        /\ ret' = [ret EXCEPT ![p] =
                     IF AfterGuard(ctx[p].transcript_text, skip) = "fail"
                     THEN Raised("guard", "NoTranscriptError") ELSE @]
    /\ UNCHANGED <<shared, nextJob, started, args, seen, ctx, retry, log>>

\* a loop that gives up after the first failed attempt
RetryExhaustedAfterOne(r) == r.attempts >= 1

\* one pass of _retry's loop body after func() raised exc: last_exc = exc; time.sleep(delay)
RetryFailed(r, exc) == [attempts |-> r.attempts + 1, last_exc |-> exc]
\* a loop that makes one attempt more than RetryAttempts
RetryExhaustedOneLate(r) == r.attempts >= RetryAttempts + 1

\* the loop is over (range(attempts) exhausted) and last_exc is raised
RetryExhausted(r) == r.attempts >= RetryAttempts

\* the warning after the historical backfill's _retry raised exc
WarningAfterHistorical(warning, exc) == AddIngestWarning(warning, HistoricalMsg(exc))
\* the warning after the live ingest's _retry raised exc
WarningAfterLive(warning, exc) == SetDefaultWarning(warning, LiveMsg(exc))

\* _retry(lambda: ingest_recent_history_into_neo4j(context, ...)), one attempt per step
Hist(p) ==
    /\ pc[p] = "hist"
    /\ \/ \* the attempt returns
          /\ log' = Logged(p, "ingest_recent_history_into_neo4j", TRUE)
          /\ retry' = [retry EXCEPT ![p] = NoRetry]
          /\ pc' = [pc EXCEPT ![p] = "live"]
          /\ UNCHANGED ctx
       \/ \E exc \in IngestErrors :
          LET r == RetryFailed(retry[p], exc) IN
          /\ log' = LoggedFailedAttempt(p, "ingest_recent_history_into_neo4j")
          /\ IF RetryExhausted(r)
             THEN /\ ctx' = [ctx EXCEPT ![p].ingest_warning = WarningAfterHistorical(@, r.last_exc)]
                  /\ retry' = [retry EXCEPT ![p] = NoRetry]
                  /\ pc' = [pc EXCEPT ![p] = "live"]
             ELSE /\ retry' = [retry EXCEPT ![p] = r]
                  /\ UNCHANGED <<ctx, pc>>
    /\ UNCHANGED <<shared, nextJob, started, args, seen, work, ret>>

\* _retry(lambda: ingest_context_into_neo4j(context)), one attempt per step
Live(p) ==
    /\ pc[p] = "live"
    /\ \/ \* the attempt returns
          /\ log' = Logged(p, "ingest_context_into_neo4j", TRUE)
          /\ retry' = [retry EXCEPT ![p] = NoRetry]
          /\ pc' = [pc EXCEPT ![p] = "predict"]
          /\ UNCHANGED ctx
       \/ \E exc \in IngestErrors :
          LET r == RetryFailed(retry[p], exc) IN
          /\ log' = LoggedFailedAttempt(p, "ingest_context_into_neo4j")
          /\ IF RetryExhausted(r)
             THEN /\ ctx' = [ctx EXCEPT ![p].ingest_warning = WarningAfterLive(@, r.last_exc)]
                  /\ retry' = [retry EXCEPT ![p] = NoRetry]
                  /\ pc' = [pc EXCEPT ![p] = "predict"]
             ELSE /\ retry' = [retry EXCEPT ![p] = r]
                  /\ UNCHANGED <<ctx, pc>>
    /\ UNCHANGED <<shared, nextJob, started, args, seen, work, ret>>

\* exception kinds of the prediction collaborator
PredictErrors == {"AgenticRagBridgeError", "Exception"}

\* every exception of the prediction call wrapped, the bridge error included
PredictErrorWrapAll(exc) == "RuntimeError"

\* what run_agentic_rag raises for an exception of run_single_call_from_context
PredictError(exc) ==
    IF exc = "AgenticRagBridgeError" THEN "AgenticRagBridgeError" ELSE "RuntimeError"

\* "raise" re-raises exc itself; "raise RuntimeError(...) from exc" chains exc
PredictCause(exc) == IF PredictError(exc) = exc THEN "none" ELSE exc

\* result = run_single_call_from_context(context, ...)
Predict(p) ==
    /\ pc[p] = "predict"
    /\ \/ \E exc \in PredictErrors :
          /\ log' = Logged(p, "run_single_call_from_context", FALSE)
          /\ pc' = [pc EXCEPT ![p] = "fail"]
          /\ ret' = [ret EXCEPT ![p] = RaisedFrom("run_single_call_from_context",
                                                  PredictError(exc), PredictCause(exc))]
          /\ UNCHANGED work
       \/ \E pred \in world.predictions :
          /\ log' = Logged(p, "run_single_call_from_context", TRUE)
          /\ work' = [work EXCEPT ![p].prediction = pred]
          /\ pc' = [pc EXCEPT ![p] = "persist"]
          /\ UNCHANGED ret
    /\ UNCHANGED <<shared, nextJob, started, args, seen, ctx, retry>>

\* a float, in thousandths (0.01 is 10, 0.5 is 500)
Float(milli) == [kind |-> "float", milli |-> milli]
Abs(n) == IF n < 0 THEN -n ELSE n

\* str(pred).upper() on the prediction strings in use
PredUpper(pred) == CASE pred = "up" -> "UP" [] pred = "down" -> "DOWN" [] OTHER -> pred

\* the flag with "if post_ret and pred": a return of 0 counts as absent
PersistCorrectTruthy(post_ret, pred) ==
    IF post_ret # None /\ post_ret.milli # 0 /\ pred # "none"
    THEN CASE PredUpper(pred) = "UP" -> IF post_ret.milli > 0 THEN "True" ELSE "False"
           [] PredUpper(pred) = "DOWN" -> IF post_ret.milli < 0 THEN "True" ELSE "False"
           [] PredUpper(pred) = "NEUTRAL" -> IF Abs(post_ret.milli) < 10 THEN "True" ELSE "False"
           [] OTHER -> "None"
    ELSE "None"

\* correct = None; if post_ret is not None and pred: post_ret > 0 / < 0 / abs(post_ret) < 0.01
PersistCorrect(post_ret, pred) ==
    IF post_ret # None /\ pred # "none"
    THEN CASE PredUpper(pred) = "UP" -> IF post_ret.milli > 0 THEN "True" ELSE "False"
           [] PredUpper(pred) = "DOWN" -> IF post_ret.milli < 0 THEN "True" ELSE "False"
           [] PredUpper(pred) = "NEUTRAL" -> IF Abs(post_ret.milli) < 10 THEN "True" ELSE "False"
           [] OTHER -> "None"
    ELSE "None"

\* persistence without its try/except: a record_analysis that raises fails the call
PersistUnguarded(p) ==
    /\ pc[p] = "persist"
    /\ \E ok \in BOOLEAN :
        /\ log' = Logged(p, "record_analysis", ok)
        /\ persisted' = IF ok THEN persisted \cup {work[p].job_id} ELSE persisted
        /\ pc' = [pc EXCEPT ![p] = IF ok THEN "backtest" ELSE "fail"]
        /\ ret' = [ret EXCEPT ![p] = IF ok THEN @ ELSE Raised("record_analysis", "Exception")]
    /\ work' = [work EXCEPT ![p].correct =
                  PersistCorrect(ctx[p].post_earnings_return, work[p].prediction)]
    /\ UNCHANGED <<tier1, tier2, services, nextJob, started, args, seen, ctx, retry>>

\* correct = ...; record_analysis(job_id, ..., correct, ...) in try/except
Persist(p) ==
    /\ pc[p] = "persist"
    /\ \E ok \in BOOLEAN :
        /\ log' = Logged(p, "record_analysis", ok)
        /\ persisted' = IF ok THEN persisted \cup {work[p].job_id} ELSE persisted
    /\ work' = [work EXCEPT ![p].correct =
                  PersistCorrect(ctx[p].post_earnings_return, work[p].prediction)]
    /\ pc' = [pc EXCEPT ![p] = "backtest"]
    /\ UNCHANGED <<tier1, tier2, services, nextJob, started, args, seen, ctx, retry, ret>>

\* the step after the payload is built: the blocking entry point returns it
AfterPayload(entry) == IF entry = "sync" THEN "done" ELSE "t2_write"

\* backtest = compute_earnings_backtest(...) in try/except; payload = {...}
Backtest(p) ==
    /\ pc[p] = "backtest"
    /\ \E b \in {"none", "backtest"} :
        /\ log' = Logged(p, "compute_earnings_backtest", b # "none")
        /\ work' = [work EXCEPT ![p].backtest = b]
        /\ ret' = [ret EXCEPT ![p] =
                     IF AfterPayload(args[p].entry) = "done"
                     THEN Returned(BuildPayload(args[p], ctx[p], work[p], b)) ELSE @]
    /\ pc' = [pc EXCEPT ![p] = AfterPayload(args[p].entry)]
    /\ UNCHANGED <<shared, nextJob, started, args, seen, ctx, retry>>

Payload(p) == BuildPayload(args[p], ctx[p], work[p], work[p].backtest)

\* the Tier-2 write without its try/except: a write that raises fails the call
T2WriteUnguarded(p) ==
    /\ pc[p] = "t2_write"
    /\ \E ok \in BOOLEAN :
        /\ log' = Logged(p, "set_cached_payload", ok)
        /\ tier2' = IF ok
                    THEN [tier2 EXCEPT ![DbKey(args[p].symbol, args[p].year, args[p].quarter)] = Payload(p)]
                    ELSE tier2
        /\ pc' = [pc EXCEPT ![p] = IF ok THEN "t1_write" ELSE "fail"]
        /\ ret' = [ret EXCEPT ![p] = IF ok THEN @ ELSE Raised("set_cached_payload", "Exception")]
    /\ UNCHANGED <<tier1, persisted, services, nextJob, started, args, seen, ctx, retry, work>>

\* set_cached_payload(symbol, year, quarter, payload) in try/except
T2Write(p) ==
    /\ pc[p] = "t2_write"
    /\ \E ok \in BOOLEAN :
        /\ log' = Logged(p, "set_cached_payload", ok)
        /\ tier2' = IF ok
                    THEN [tier2 EXCEPT ![DbKey(args[p].symbol, args[p].year, args[p].quarter)] = Payload(p)]
                    ELSE tier2
    /\ pc' = [pc EXCEPT ![p] = "t1_write"]
    /\ UNCHANGED <<tier1, persisted, services, nextJob, started, args, seen, ctx, retry, work, ret>>

\* a Tier-1 write that keeps an entry already stored under the key
T1WriteIfAbsent(p) ==
    /\ pc[p] = "t1_write"
    /\ \E ok \in BOOLEAN :
        /\ log' = Logged(p, "cache_set_json", ok)
        /\ tier1' = IF ok /\ tier1[CacheKey(args[p].symbol, args[p].year, args[p].quarter)] = None
                    THEN [tier1 EXCEPT ![CacheKey(args[p].symbol, args[p].year, args[p].quarter)] = Payload(p)]
                    ELSE tier1
    /\ pc' = [pc EXCEPT ![p] = "done"]
    /\ ret' = [ret EXCEPT ![p] = Returned(Payload(p))]
    /\ UNCHANGED <<tier2, persisted, services, nextJob, started, args, seen, ctx, retry, work>>

\* await cache_set_json(cache_key, payload, TTL) in try/except; return payload
T1Write(p) ==
    /\ pc[p] = "t1_write"
    /\ \E ok \in BOOLEAN :
        /\ log' = Logged(p, "cache_set_json", ok)
        /\ tier1' = IF ok
                    THEN [tier1 EXCEPT ![CacheKey(args[p].symbol, args[p].year, args[p].quarter)] = Payload(p)]
                    ELSE tier1
    /\ pc' = [pc EXCEPT ![p] = "done"]
    /\ ret' = [ret EXCEPT ![p] = Returned(Payload(p))]
    /\ UNCHANGED <<tier2, persisted, services, nextJob, started, args, seen, ctx, retry, work>>

Next ==
    \E p \in Procs :
        \/ Start(p)
        \/ T1Read(p)
        \/ T2Read(p)
        \/ T1Backfill(p)
        \/ Context(p)
        \/ Guard(p)
        \/ Hist(p)
        \/ Live(p)
        \/ Predict(p)
        \/ Persist(p)
        \/ Backtest(p)
        \/ T2Write(p)
        \/ T1Write(p)

Spec == Init /\ [][Next]_vars

(* ----------------- the blocking and the async entry point, paired ------ *)
\* analyze_earnings(symbol, year, quarter) called by the caller
StartBlocking(p) ==
    /\ p = Caller
    /\ \A q \in Procs : pc[q] = "idle"
    /\ \E r \in Requests :
        args' = [args EXCEPT ![p] = [entry |-> "sync", symbol |-> r[1], year |-> r[2],
                                     quarter |-> r[3], skip_cache |-> FALSE]]
    /\ pc' = [pc EXCEPT ![p] = FirstStep("sync", FALSE)]
    /\ started' = started + 1
    /\ UNCHANGED <<shared, nextJob, seen, ctx, retry, work, ret, log>>

\* analyze_earnings_async called with the arguments of the finished blocking call
StartAsyncSame(p) ==
    /\ p # Caller
    /\ pc[p] = "idle"
    /\ pc[Caller] \in {"done", "fail"}
    /\ \E skip_cache \in BOOLEAN :
        /\ args' = [args EXCEPT ![p] = [args[Caller] EXCEPT !.entry = "async",
                                                             !.skip_cache = skip_cache]]
        /\ pc' = [pc EXCEPT ![p] = FirstStep("async", skip_cache)]
    /\ started' = started + 1
    /\ UNCHANGED <<shared, nextJob, seen, ctx, retry, work, ret, log>>

NextPair ==
    \E p \in Procs :
        \/ StartBlocking(p)
        \/ StartAsyncSame(p)
        \/ T1Read(p)
        \/ T2Read(p)
        \/ Context(p)
        \/ Guard(p)
        \/ Hist(p)
        \/ Live(p)
        \/ Predict(p)
        \/ Persist(p)
        \/ Backtest(p)
        \/ T2Write(p)
        \/ T1Write(p)

SpecPair == Init /\ [][NextPair]_vars

(* ------------------------- service enrichment -------------------------- *)
\* the prediction argument of enrich_analysis_with_services
EnrichPredictions == {"UP", "DOWN", "NEUTRAL", "UNKNOWN"}
\* return_pct values of the backtester, in hundredths of a percentage point
ReturnPcts == {-150, 0, 50}
\* what a client call does: raise, or return one of these
MetricsReplies == {[kind |-> "dict", data |-> "metrics"]}
ValidationReplies ==
    {[kind |-> "dict", error |-> "backtester error", return_pct |-> 0]}
    \cup {[kind |-> "dict", error |-> "", return_pct |-> r] : r \in ReturnPcts}

\* the payload handed to the enrichment, with its two optional keys
EnrichInput(prediction) ==
    [base |-> BuildPayload([symbol |-> <<"A">>, year |-> 2024, quarter |-> 1],
                           [transcript_date |-> "2024-05-01", ingest_warning |-> <<>>],
                           [job_id |-> 1, prediction |-> prediction], "backtest"),
     performance_metrics |-> Absent, backtester_validation |-> Absent]

\* the flag with the 0.01 band of the persistence step (1 hundredth of a point)
ValidationCorrectNarrowBand(prediction, actual_return) ==
    CASE prediction = "UP" -> IF actual_return > 0 THEN "True" ELSE "False"
      [] prediction = "DOWN" -> IF actual_return < 0 THEN "True" ELSE "False"
      [] prediction = "NEUTRAL" ->
            IF (IF actual_return < 0 THEN -actual_return ELSE actual_return) < 1
            THEN "True" ELSE "False"
      [] OTHER -> "None"

\* correct = actual_return > 0 / < 0 / abs(actual_return) < 1.0, else None
ValidationCorrect(prediction, actual_return) ==
    CASE prediction = "UP" -> IF actual_return > 0 THEN "True" ELSE "False"
      [] prediction = "DOWN" -> IF actual_return < 0 THEN "True" ELSE "False"
      [] prediction = "NEUTRAL" ->
            IF (IF actual_return < 0 THEN -actual_return ELSE actual_return) < 100
            THEN "True" ELSE "False"
      [] OTHER -> "None"

\* get_performance_metrics_for_earnings: what the coroutine returns when the
\* client call replied (reply) or raised (raised)
MetricsResult(raised, reply) == IF raised THEN None ELSE reply

\* get_backtester_validation: the same, with the correctness flag added
ValidationResult(raised, reply, prediction) ==
    IF raised THEN None
    ELSE IF reply.error # "" THEN reply
    ELSE [kind |-> "dict", error |-> "", return_pct |-> reply.return_pct,
          prediction |-> prediction,
          prediction_correct |-> ValidationCorrect(prediction, reply.return_pct)]

\* the slot of the payload after gather(): a dict is stored, an exception
\* becomes {"error": str(exc)}, anything else leaves the key as it was
Slot(old, result) ==
    IF result.kind = "dict" THEN result
    ELSE IF result.kind = "exception" THEN [kind |-> "dict", error |-> result.msg]
    ELSE old

\* enrich_analysis_with_services(payload, symbol, earnings_date, prediction)
EnrichStart ==
    /\ enr.pc = "idle"
    /\ \E prediction \in EnrichPredictions :
        enr' = [NoEnr EXCEPT !.pc = "gather", !.payload = EnrichInput(prediction),
                             !.prediction = prediction]
    /\ UNCHANGED <<core, flags, rt, pure>>

\* the metrics coroutine of the fan-out
MetricsTask ==
    /\ enr.pc = "gather"
    /\ enr.metrics.pc = "created"
    /\ IF ~flags.metrics
       THEN enr' = [enr EXCEPT !.metrics = [pc |-> "done", client |-> "not_called",
                                            result |-> None]]
       ELSE \/ enr' = [enr EXCEPT !.metrics = [pc |-> "done", client |-> "raised",
                                               result |-> MetricsResult(TRUE, None)]]
            \/ \E reply \in MetricsReplies :
               enr' = [enr EXCEPT !.metrics = [pc |-> "done", client |-> "returned",
                                               result |-> MetricsResult(FALSE, reply)]]
    /\ UNCHANGED <<core, flags, rt, pure>>

\* the validation coroutine of the fan-out
ValidationTask ==
    /\ enr.pc = "gather"
    /\ enr.validation.pc = "created"
    /\ IF ~flags.validation
       THEN enr' = [enr EXCEPT !.validation = [pc |-> "done", client |-> "not_called",
                                               result |-> None]]
       ELSE \/ enr' = [enr EXCEPT !.validation =
                         [pc |-> "done", client |-> "raised",
                          result |-> ValidationResult(TRUE, None, enr.prediction)]]
            \/ \E reply \in ValidationReplies :
               enr' = [enr EXCEPT !.validation =
                         [pc |-> "done", client |-> "returned",
                          result |-> ValidationResult(FALSE, reply, enr.prediction)]]
    /\ UNCHANGED <<core, flags, rt, pure>>

\* a join that returns as soon as one of the two coroutines is done
EnrichJoinFirstDone ==
    /\ enr.pc = "gather"
    /\ enr.metrics.pc = "done" \/ enr.validation.pc = "done"
    /\ enr' = [enr EXCEPT
                 !.pc = "done",
                 !.payload.performance_metrics = Slot(@, enr.metrics.result),
                 !.payload.backtester_validation = Slot(@, enr.validation.result)]
    /\ UNCHANGED <<core, flags, rt, pure>>

\* a join that also stores the enriched payload in Tier 1
EnrichJoinWriteBack ==
    /\ enr.pc = "gather"
    /\ enr.metrics.pc = "done"
    /\ enr.validation.pc = "done"
    /\ enr' = [enr EXCEPT
                 !.pc = "done",
                 !.payload.performance_metrics = Slot(@, enr.metrics.result),
                 !.payload.backtester_validation = Slot(@, enr.validation.result)]
    /\ tier1' = [tier1 EXCEPT ![CacheKey(args[Caller].symbol, args[Caller].year,
                                         args[Caller].quarter)] = enr'.payload]
    /\ UNCHANGED <<tier2, persisted, nextJob, started, pc, args, seen, ctx, retry,
                   work, ret, log, flags, rt, pure>>

\* asyncio.gather returned: both results are put into the payload, which is returned
EnrichJoin ==
    /\ enr.pc = "gather"
    /\ enr.metrics.pc = "done"
    /\ enr.validation.pc = "done"
    /\ enr' = [enr EXCEPT
                 !.pc = "done",
                 !.payload.performance_metrics = Slot(@, enr.metrics.result),
                 !.payload.backtester_validation = Slot(@, enr.validation.result)]
    /\ UNCHANGED <<core, flags, rt, pure>>

InitEnrich ==
    /\ InitCore
    /\ flags \in [metrics : BOOLEAN, validation : BOOLEAN]
    /\ enr = NoEnr
    /\ rt = NoRt
    /\ world = DefaultWorld
    /\ br = NoBr

NextEnrich == EnrichStart \/ MetricsTask \/ ValidationTask \/ EnrichJoin

SpecEnrich == InitEnrich /\ [][NextEnrich]_vars

(* -------------------- analyze_earnings_with_services -------------------- *)
\* a payload an earlier call for ("A", 2024, 1) left in the cache tiers
EarlierPayload(date) ==
    BuildPayload([symbol |-> <<"A">>, year |-> 2024, quarter |-> 1],
                 [transcript_date |-> date, ingest_warning |-> <<>>],
                 [job_id |-> 0, prediction |-> "UP"], "backtest")

\* the tiers as earlier calls may have left them: empty, or holding that call's
\* payload (with or without a transcript date) under its key
InitServices ==
    /\ \E e \in {None, EarlierPayload("2024-05-01"), EarlierPayload("")} :
        tier1 = [k \in T1Keys |-> IF k = CacheKey(<<"A">>, 2024, 1) THEN e ELSE None]
    /\ \E e \in {None, EarlierPayload("2024-05-01")} :
        tier2 = [k \in T2Keys |-> IF k = DbKey(<<"A">>, 2024, 1) THEN e ELSE None]
    /\ persisted = {}
    /\ nextJob = 1
    /\ started = 0
    /\ pc = [p \in Procs |-> "idle"]
    /\ args = [p \in Procs |-> NoArgs]
    /\ seen = [p \in Procs |-> NoSeen]
    /\ ctx = [p \in Procs |-> NoCtx]
    /\ retry = [p \in Procs |-> NoRetry]
    /\ work = [p \in Procs |-> NoWork]
    /\ ret = [p \in Procs |-> NoRet]
    /\ log = [p \in Procs |-> <<>>]
    /\ flags = [metrics |-> TRUE, validation |-> TRUE]
    /\ enr = NoEnr
    /\ rt = NoRt
    /\ world = DefaultWorld
    /\ br = NoBr

\* payload = await analyze_earnings_async(symbol, year, quarter, ..., skip_cache)
ServicesStart(p) ==
    /\ p = Caller
    /\ pc[p] = "idle"
    /\ enr.pc = "idle"
    /\ \E r \in Requests, skip_cache \in BOOLEAN :
        /\ args' = [args EXCEPT ![p] = [entry |-> "async", symbol |-> r[1], year |-> r[2],
                                        quarter |-> r[3], skip_cache |-> skip_cache]]
        /\ pc' = [pc EXCEPT ![p] = FirstStep("async", skip_cache)]
    /\ started' = started + 1
    /\ enr' = [NoEnr EXCEPT !.pc = "base"]
    /\ UNCHANGED <<tier1, tier2, persisted, flags, rt, pure, nextJob, seen, ctx, retry, work, ret, log>>

\* agentic_result.get("prediction", "NEUTRAL")
ServicesPrediction(payload) ==
    IF payload.prediction = "none" THEN "NEUTRAL" ELSE payload.prediction

\* the payload as enrich_analysis_with_services receives it
EnrichPayload(base) ==
    [base |-> base, performance_metrics |-> Absent, backtester_validation |-> Absent]

\* the base analysis is over: its exception propagates; without an earnings
\* date the payload is returned as it is; otherwise the enrichment is awaited
ServicesAfterBase(p) ==
    /\ p = Caller
    /\ enr.pc = "base"
    /\ pc[p] \in {"done", "fail"}
    /\ enr' = IF pc[p] = "fail" THEN [enr EXCEPT !.pc = "fail"]
              ELSE IF ret[p].payload.transcript_date = ""
              THEN [enr EXCEPT !.pc = "done", !.payload = EnrichPayload(ret[p].payload)]
              ELSE [enr EXCEPT !.pc = "gather", !.payload = EnrichPayload(ret[p].payload),
                               !.prediction = ServicesPrediction(ret[p].payload)]
    /\ UNCHANGED <<core, flags, rt, pure>>

NextServices ==
    \/ \E p \in Procs :
        \/ ServicesStart(p)
        \/ T1Read(p)
        \/ T2Read(p)
        \/ T1Backfill(p)
        \/ Context(p)
        \/ Guard(p)
        \/ Hist(p)
        \/ Live(p)
        \/ Predict(p)
        \/ Persist(p)
        \/ Backtest(p)
        \/ T2Write(p)
        \/ T1Write(p)
        \/ ServicesAfterBase(p)
    \/ MetricsTask
    \/ ValidationTask
    \/ EnrichJoin

SpecServices == InitServices /\ [][NextServices]_vars

(* ---------------- concurrent invocations for one cache key -------------- *)
\* arguments that lead to the same cache key
SameKeyRequests == {<<<<"a">>, 2024, 1>>, <<<<"A">>, 2024, 1>>}

\* a task calls analyze_earnings_async while the other task may be running
ConcurrentStart(p) ==
    /\ pc[p] = "idle"
    /\ \E r \in SameKeyRequests :
        args' = [args EXCEPT ![p] = [entry |-> "async", symbol |-> r[1], year |-> r[2],
                                     quarter |-> r[3], skip_cache |-> FALSE]]
    /\ pc' = [pc EXCEPT ![p] = FirstStep("async", FALSE)]
    /\ started' = started + 1
    /\ UNCHANGED <<shared, nextJob, seen, ctx, retry, work, ret, log>>

\* run_agentic_rag in an environment with USE_PG_DB_AGENTS=true
GuardSkipOn(p) == Guard(p) /\ work'[p].skip_neo4j_ingest

NextConcurrent ==
    \E p \in Procs :
        \/ ConcurrentStart(p)
        \/ T1Read(p)
        \/ T2Read(p)
        \/ T1Backfill(p)
        \/ Context(p)
        \/ GuardSkipOn(p)
        \/ Predict(p)
        \/ Persist(p)
        \/ Backtest(p)
        \/ T2Write(p)
        \/ T1Write(p)

SpecConcurrent == Init /\ [][NextConcurrent]_vars

(* ------------------- the correctness flag of persistence ----------------- *)
\* post_earnings_return values of the context: absent, or a fraction
PostReturns == {None} \cup {Float(m) : m \in {-20, -5, 0, 5, 500}}
\* prediction values of the agentic result ("none": the key is absent)
PersistPredictions == {"UP", "DOWN", "NEUTRAL", "UNKNOWN", "up", "none"}

InitPersist ==
    /\ InitCore
    /\ flags = [metrics |-> TRUE, validation |-> TRUE]
    /\ enr = NoEnr
    /\ rt = NoRt
    /\ br = NoBr
    /\ world \in {[post_earnings_return |-> r, predictions |-> {pr}] :
                     r \in PostReturns, pr \in PersistPredictions}

\* one call of either entry point that goes to the pipeline
PersistStart(p) ==
    /\ p = Caller
    /\ pc[p] = "idle"
    /\ \E entry \in Entries, r \in SameKeyRequests :
        /\ args' = [args EXCEPT ![p] = [entry |-> entry, symbol |-> r[1], year |-> r[2],
                                        quarter |-> r[3], skip_cache |-> entry = "async"]]
        /\ pc' = [pc EXCEPT ![p] = FirstStep(entry, entry = "async")]
    /\ started' = started + 1
    /\ UNCHANGED <<shared, nextJob, seen, ctx, retry, work, ret, log>>

NextPersist ==
    \E p \in Procs :
        \/ PersistStart(p)
        \/ Context(p)
        \/ GuardSkipOn(p)
        \/ Predict(p)
        \/ Persist(p)
        \/ Backtest(p)
        \/ T2Write(p)
        \/ T1Write(p)

SpecPersist == InitPersist /\ [][NextPersist]_vars

(* ------------- agentic_rag_bridge: direction of a summary --------------- *)
\* largest integer written after "Direction:" in the summaries drawn
MaxScore == 12

\* a Python str, as its characters
Str(chars) == [kind |-> "str", chars |-> chars]

UpperLetters == <<"A", "B", "C", "D", "E", "F", "G", "H", "I", "J", "K", "L", "M", "N", "O", "P", "Q", "R", "S", "T", "U", "V", "W", "X", "Y", "Z">>
LowerLetters == <<"a", "b", "c", "d", "e", "f", "g", "h", "i", "j", "k", "l", "m", "n", "o", "p", "q", "r", "s", "t", "u", "v", "w", "x", "y", "z">>
DigitChars == <<"0", "1", "2", "3", "4", "5", "6", "7", "8", "9">>

\* str.lower() and the letter folding of re.IGNORECASE
LowerChar(c) ==
    IF \E i \in 1..26 : UpperLetters[i] = c
    THEN LowerLetters[CHOOSE i \in 1..26 : UpperLetters[i] = c]
    ELSE c
StrLower(s) == [i \in 1..Len(s) |-> LowerChar(s[i])]

\* \s and \d of the pattern
IsSpace(c) == c \in {" ", "\t", "\n"}
IsDigit(c) == \E d \in 1..10 : DigitChars[d] = c
DigitValue(c) == (CHOOSE d \in 1..10 : DigitChars[d] = c) - 1

\* w occurs in s at position i
StartsWithAt(s, i, w) ==
    /\ i + Len(w) - 1 <= Len(s)
    /\ \A k \in 1..Len(w) : s[i + k - 1] = w[k]
\* w in s
Contains(s, w) == \E i \in 1..Len(s) : StartsWithAt(s, i, w)

\* \s* from position i: the position after the run of white space
RECURSIVE SkipSpace(_, _)
SkipSpace(s, i) == IF i <= Len(s) /\ IsSpace(s[i]) THEN SkipSpace(s, i + 1) ELSE i
\* \d* from position i: the position after the run of digits
RECURSIVE SkipDigits(_, _)
SkipDigits(s, i) == IF i <= Len(s) /\ IsDigit(s[i]) THEN SkipDigits(s, i + 1) ELSE i

\* int() of a run of decimal digits
RECURSIVE IntOfDigits(_)
IntOfDigits(d) ==
    IF d = <<>> THEN 0
    ELSE 10 * IntOfDigits(SubSeq(d, 1, Len(d) - 1)) + DigitValue(d[Len(d)])

\* the pattern Direction\s*:\s*(\d+), letters folded, tried at position i
DirectionWord == <<"d", "i", "r", "e", "c", "t", "i", "o", "n">>
DirectionColon(s, i) == SkipSpace(s, i + Len(DirectionWord))
DirectionDigits(s, i) == SkipSpace(s, DirectionColon(s, i) + 1)
DirectionMatchAt(s, i) ==
    /\ StartsWithAt(StrLower(s), i, DirectionWord)
    /\ DirectionColon(s, i) <= Len(s)
    /\ s[DirectionColon(s, i)] = ":"
    /\ SkipDigits(s, DirectionDigits(s, i)) > DirectionDigits(s, i)
\* re.search: the leftmost match, its group 1, or None
DirectionSearch(s) ==
    IF \E i \in 1..Len(s) : DirectionMatchAt(s, i)
    THEN LET i == CHOOSE j \in 1..Len(s) :
                    /\ DirectionMatchAt(s, j)
                    /\ \A k \in 1..(j - 1) : ~DirectionMatchAt(s, k)
         IN [kind |-> "match",
             group1 |-> SubSeq(s, DirectionDigits(s, i),
                               SkipDigits(s, DirectionDigits(s, i)) - 1)]
    ELSE None

BullishKeywords == {<<"u", "p">>, <<"i", "n", "c", "r", "e", "a", "s", "e">>, <<"g", "r", "o", "w", "t", "h">>, <<"r", "e", "c", "o", "r", "d">>, <<"b", "e", "a", "t">>}
BearishKeywords == {<<"d", "o", "w", "n">>, <<"d", "e", "c", "l", "i", "n", "e">>, <<"m", "i", "s", "s">>, <<"p", "r", "e", "s", "s", "u", "r", "e">>, <<"h", "e", "a", "d", "w", "i", "n", "d">>}

\* a mapping in which 5 is on the UP side
DirectionOfScoreFiveUp(score) == IF score >= 5 THEN "UP" ELSE "DOWN"
\* if score >= 6: UP, else DOWN
DirectionOfScore(score) == IF score >= 6 THEN "UP" ELSE "DOWN"

\* a keyword scan of the summary as written
LoweredAsWritten(summary) == summary.chars
\* lowered = summary.lower()
Lowered(summary) == StrLower(summary.chars)

\* _infer_direction(summary): the pair (prediction, confidence)
infer_direction(summary) ==
    IF summary = None \/ summary.chars = <<>>
    THEN [prediction |-> "UNKNOWN", confidence |-> None]
    ELSE LET match == DirectionSearch(summary.chars) IN
         IF match # None
         THEN LET score == IntOfDigits(match.group1) IN
              [prediction |-> DirectionOfScore(score), confidence |-> Float(100 * score)]
         ELSE IF \E k \in BullishKeywords : Contains(Lowered(summary), k)
              THEN [prediction |-> "UP", confidence |-> Float(600)]
              ELSE IF \E k \in BearishKeywords : Contains(Lowered(summary), k)
                   THEN [prediction |-> "DOWN", confidence |-> Float(400)]
                   ELSE [prediction |-> "UNKNOWN", confidence |-> None]

\* the summaries drawn: three pieces of text one after the other, each with
\* the integer a "Direction: <integer>" in it carries (-1: it has none) and
\* the keywords it holds
Piece(text, score, tone) == [text |-> text, score |-> score, tone |-> tone]
\* str(n) of a natural number
RECURSIVE DecimalOf(_)
DecimalOf(n) ==
    IF n < 10 THEN <<DigitChars[n + 1]>>
    ELSE DecimalOf(n \div 10) \o <<DigitChars[(n % 10) + 1]>>
LeadPieces ==
    { Piece(<<>>, -1, "none"),
      Piece(<<"U", "p", " ">>, -1, "bullish"),
      Piece(<<"m", "i", "s", "s", " ">>, -1, "bearish"),
      Piece(<<"f", "l", "a", "t", " ">>, -1, "none"),
      Piece(<<"S", "u", "p", "p", "l", "y", " ">>, -1, "bullish"),
      Piece(<<"D", "i", "r", "e", "c", "t", "i", "o", "n", ":", " ", "3", " ">>, 3, "none"),
      Piece(<<"D", "i", "r", "e", "c", "t", "i", "o", "n", ":", " ", "x", " ">>, -1, "none") }
ScorePieces ==
    { Piece(word \o sp1 \o <<":">> \o sp2 \o pad \o DecimalOf(n), n, "none") :
        word \in {<<"D", "i", "r", "e", "c", "t", "i", "o", "n">>, <<"D", "I", "R", "E", "C", "T", "I", "O", "N">>, <<"d", "i", "r", "e", "c", "t", "i", "o", "n">>},
        sp1 \in {<<>>, <<" ">>}, sp2 \in {<<>>, <<" ">>, <<" ", "\n">>},
        pad \in {<<>>, <<"0">>}, n \in 0..MaxScore }
OtherPieces ==
    { Piece(<<>>, -1, "none"),
      Piece(<<"D", "i", "r", "e", "c", "t", "i", "o", "n", "S", "c", "o", "r", "e", ":", " ", "8">>, -1, "none"),
      Piece(<<"D", "i", "r", "e", "c", "t", "i", "o", "n", " ", "7">>, -1, "none"),
      Piece(<<"D", "i", "r", "e", "c", "t", "i", "o", "n", ":", " ", "-", "7">>, -1, "none") }
TailPieces ==
    { Piece(<<>>, -1, "none"),
      Piece(<<" ", "B", "E", "A", "T">>, -1, "bullish"),
      Piece(<<" ", "h", "e", "a", "d", "w", "i", "n", "d">>, -1, "bearish"),
      Piece(<<" ", "D", "i", "r", "e", "c", "t", "i", "o", "n", ":", " ", "7">>, 7, "none"),
      Piece(<<" ", "s", "t", "e", "a", "d", "y">>, -1, "none") }
SummaryInputs ==
    {None} \cup
    { [kind |-> "text", lead |-> lead, mid |-> mid, tail |-> tail] :
        lead \in LeadPieces, mid \in ScorePieces \cup OtherPieces, tail \in TailPieces }
SummaryOf(input) ==
    IF input = None THEN None
    ELSE Str(input.lead.text \o input.mid.text \o input.tail.text)

\* agent_output.get("summary") is handed to _infer_direction
DirectionCall ==
    /\ br.pc = "idle"
    /\ \E input \in SummaryInputs :
         br' = [br EXCEPT !.pc = "called", !.input = input, !.summary = SummaryOf(input)]
    /\ UNCHANGED <<core, flags, enr, rt, world>>

\* prediction, confidence = _infer_direction(summary)
DirectionReturn ==
    /\ br.pc = "called"
    /\ br' = [br EXCEPT !.pc = "done", !.out = infer_direction(br.summary)]
    /\ UNCHANGED <<core, flags, enr, rt, world>>

NextDirection == DirectionCall \/ DirectionReturn
SpecDirection == Init /\ [][NextDirection]_vars

(* ------------- agentic_rag_bridge: the trade_long rule ------------------- *)
\* values of a parsed JSON object: integers, strings (Str), null (None),
\* true/false, and the float json.loads gives for Infinity or 1e999
JInt(n) == [kind |-> "int", v |-> n]
JBool(b) == [kind |-> "bool", v |-> b]
JInfinity == [kind |-> "inf"]

\* str.upper() over the whole alphabet
UpperLetter(c) ==
    IF \E i \in 1..26 : LowerLetters[i] = c
    THEN UpperLetters[CHOOSE i \in 1..26 : LowerLetters[i] = c]
    ELSE c
StrUpper(s) == [i \in 1..Len(s) |-> UpperLetter(s[i])]

\* dict.get(key, default) on a field that may be missing
DictGet(v, default) == IF v = Absent THEN default ELSE v

\* int(x): the integer, or the exception int() raises
py_int(x) ==
    CASE x.kind = "int" -> [ok |-> TRUE, v |-> x.v]
      [] x.kind = "bool" -> [ok |-> TRUE, v |-> IF x.v THEN 1 ELSE 0]
      [] x.kind = "str" ->
            IF x.chars # <<>> /\ \A i \in 1..Len(x.chars) : IsDigit(x.chars[i])
            THEN [ok |-> TRUE, v |-> IntOfDigits(x.chars)]
            ELSE [ok |-> FALSE, error |-> "ValueError"]
      [] x.kind = "none" -> [ok |-> FALSE, error |-> "TypeError"]
      [] x.kind = "inf" -> [ok |-> FALSE, error |-> "OverflowError"]

\* str(x)
py_str(x) ==
    CASE x.kind = "str" -> x.chars
      [] x.kind = "int" -> DecimalOf(x.v)
      [] x.kind = "bool" -> IF x.v THEN <<"T", "r", "u", "e">> ELSE <<"F", "a", "l", "s", "e">>
      [] x.kind = "none" -> <<"N", "o", "n", "e">>
      [] x.kind = "inf" -> <<"i", "n", "f">>

\* what a call of _compute_trade_long ends with
TradeReturned(b) == [kind |-> "returned", value |-> b]
TradeRaised(error) == [kind |-> "raised", error |-> error]

\* the keys _compute_trade_long reads
NoFields ==
    [DirectionScore |-> Absent, HardVetoCount |-> Absent, HardPositivesCount |-> Absent,
     PricedInRisk |-> Absent, GuidanceRaised |-> Absent, DemandAcceleration |-> Absent,
     VisibilityImproving |-> Absent, LongEligible |-> Absent]

\* a basic rule that does not look at the priced-in risk
BasicEligibleIgnoreRisk(direction_score, hard_veto_count, hard_positives_count, priced_in_risk) ==
    direction_score >= 8 /\ hard_veto_count = 0 /\ hard_positives_count >= 2
\* basic_eligible
BasicEligible(direction_score, hard_veto_count, hard_positives_count, priced_in_risk) ==
    /\ direction_score >= 8
    /\ hard_veto_count = 0
    /\ hard_positives_count >= 2
    /\ priced_in_risk # <<"h", "i", "g", "h">>

\* a tech rule that any one flag satisfies
TechEligibleAnyFlag(guidance_raised, demand_accel, visibility_improving) ==
    guidance_raised \/ demand_accel \/ visibility_improving
\* guidance_raised or (demand_accel and visibility_improving)
TechEligible(guidance_raised, demand_accel, visibility_improving) ==
    guidance_raised \/ (demand_accel /\ visibility_improving)

\* is_tech = sector and "technology" in sector.lower()
IsTech(sector) ==
    /\ sector # None
    /\ sector.chars # <<>>
    /\ Contains(StrLower(sector.chars), <<"t", "e", "c", "h", "n", "o", "l", "o", "g", "y">>)

\* str(long_json.get(key, "NO")).upper() == "YES"
FlagIsYes(v) == StrUpper(py_str(DictGet(v, Str(<<"N", "O">>)))) = <<"Y", "E", "S">>

\* except (ValueError, TypeError): return False; any other exception leaves the function
TradeExcept(error) ==
    IF error \in {"ValueError", "TypeError"} THEN TradeReturned(FALSE) ELSE TradeRaised(error)

\* the try block of _compute_trade_long
TradeTry(long_json, sector) ==
         LET direction_score == py_int(DictGet(long_json.DirectionScore, JInt(0)))
             hard_veto_count == py_int(DictGet(long_json.HardVetoCount, JInt(5)))
             hard_positives_count == py_int(DictGet(long_json.HardPositivesCount, JInt(0)))
             priced_in_risk == StrLower(py_str(DictGet(long_json.PricedInRisk, Str(<<"H", "i", "g", "h">>))))
             long_eligible_str == StrUpper(py_str(DictGet(long_json.LongEligible, Str(<<"N", "O">>))))
             coerced == <<direction_score, hard_veto_count, hard_positives_count>>
         IN IF \E i \in 1..3 : ~coerced[i].ok
            THEN TradeExcept(coerced[CHOOSE i \in 1..3 :
                                        /\ ~coerced[i].ok
                                        /\ \A j \in 1..(i - 1) : coerced[j].ok].error)
            ELSE IF ~BasicEligible(direction_score.v, hard_veto_count.v,
                                   hard_positives_count.v, priced_in_risk)
            THEN TradeReturned(FALSE)
            ELSE IF /\ IsTech(sector)
                    /\ ~TechEligible(FlagIsYes(long_json.GuidanceRaised),
                                     FlagIsYes(long_json.DemandAcceleration),
                                     FlagIsYes(long_json.VisibilityImproving))
            THEN TradeReturned(FALSE)
            ELSE TradeReturned(TRUE)

\* a rule that also asks for the record's own LongEligible verdict
compute_trade_long_gated(long_json, sector) ==
    IF long_json = None \/ long_json = NoFields
    THEN TradeReturned(FALSE)
    ELSE IF ~FlagIsYes(long_json.LongEligible)
    THEN TradeReturned(FALSE)
    ELSE TradeTry(long_json, sector)

\* _compute_trade_long(long_json, sector)
compute_trade_long(long_json, sector) ==
    IF long_json = None \/ long_json = NoFields
    THEN TradeReturned(FALSE)
    ELSE TradeTry(long_json, sector)

\* the records, sectors and summaries drawn
DirectionScores == {Absent, JInt(7), JInt(8), Str(<<"8">>), Str(<<"x">>), None, JInfinity}
HardVetoCounts == {Absent, JInt(0), JInt(1), Str(<<"0">>)}
HardPositivesCounts == {Absent, JInt(1), JInt(2)}
PricedInRisks == {Absent, Str(<<"L", "o", "w">>), Str(<<"H", "i", "g", "h">>), Str(<<"H", "I", "G", "H">>), None}
GuidanceFlags == {Absent, Str(<<"Y", "E", "S">>), Str(<<"y", "e", "s">>), Str(<<"N", "O">>), JBool(TRUE)}
DemandFlags == {Absent, Str(<<"Y", "E", "S">>), Str(<<"N", "O">>)}
VisibilityFlags == {Str(<<"Y", "E", "S">>), Str(<<"N", "O">>)}
LongEligibles == {Absent, Str(<<"Y", "E", "S">>), Str(<<"N", "O">>), JBool(FALSE)}
\* records in which the LongEligible verdict is written as well
LongJsonsWithVerdict ==
    { [DirectionScore |-> ds, HardVetoCount |-> hv, HardPositivesCount |-> JInt(2),
       PricedInRisk |-> Str(<<"L", "o", "w">>), GuidanceRaised |-> g,
       DemandAcceleration |-> Absent, VisibilityImproving |-> Absent, LongEligible |-> le] :
        ds \in {Absent, JInt(7), JInt(8)}, hv \in {JInt(0), JInt(1)},
        g \in {Absent, Str(<<"Y", "E", "S">>)}, le \in LongEligibles }
    \cup { [NoFields EXCEPT !.LongEligible = le] : le \in LongEligibles }
LongJsons ==
    {None, NoFields} \cup LongJsonsWithVerdict \cup
    { [DirectionScore |-> ds, HardVetoCount |-> hv, HardPositivesCount |-> hp,
       PricedInRisk |-> risk, GuidanceRaised |-> g, DemandAcceleration |-> d,
       VisibilityImproving |-> v, LongEligible |-> Absent] :
        ds \in DirectionScores, hv \in HardVetoCounts, hp \in HardPositivesCounts,
        risk \in PricedInRisks, g \in GuidanceFlags, d \in DemandFlags,
        v \in VisibilityFlags }
Sectors == {None, Str(<<>>), Str(<<"T", "e", "c", "h", "n", "o", "l", "o", "g", "y">>), Str(<<"I", "n", "f", "o", " ", "T", "E", "C", "H", "N", "O", "L", "O", "G", "Y">>), Str(<<"E", "n", "e", "r", "g", "y">>)}
\* the text of the summary before its JSON block; the keys of the block are
\* not matches of the Direction pattern
SummaryHeads == {Str(<<"D", "i", "r", "e", "c", "t", "i", "o", "n", ":", " ", "8">>), Str(<<"D", "i", "r", "e", "c", "t", "i", "o", "n", ":", " ", "5">>)}

\* the agent's output reaches the normalisation: summary, parsed block, sector
NormaliseCall ==
    /\ br.pc = "idle"
    /\ \E summary \in SummaryHeads, long_json \in LongJsons, sector \in Sectors :
         br' = [br EXCEPT !.pc = "called", !.summary = summary,
                          !.long_json = long_json, !.sector = sector]
    /\ UNCHANGED <<core, flags, enr, rt, world>>

\* prediction, confidence = _infer_direction(...); trade_long = _compute_trade_long(...)
NormaliseReturn ==
    /\ br.pc = "called"
    /\ LET direction == infer_direction(br.summary)
           trade == compute_trade_long(br.long_json, br.sector)
       IN br' = [br EXCEPT
                   !.pc = "done",
                   !.out = IF trade.kind = "raised" THEN trade
                           ELSE [kind |-> "dict",
                                 prediction |-> direction.prediction,
                                 confidence |-> direction.confidence,
                                 trade_long |-> trade.value,
                                 long_eligible_json |-> br.long_json]]
    /\ UNCHANGED <<core, flags, enr, rt, world>>

NextTrade == NormaliseCall \/ NormaliseReturn
SpecTrade == Init /\ [][NextTrade]_vars

(* ------- agentic_rag_bridge: the JSON block and the whole normalisation --- *)
\* a summary as its pieces in order, white space between them: prose, the
\* fence marks, braces, and the members of a JSON object (key, value and the
\* comma after it); text is how a piece is written
Tok(kind, text, key, value, comma) ==
    [kind |-> kind, text |-> text, key |-> key, value |-> value, comma |-> comma]
\* a JSON value nested deeper than the interpreter's recursion limit
JDeep == [kind |-> "deep"]
KeyChars ==
    [DirectionScore |-> <<"D", "i", "r", "e", "c", "t", "i", "o", "n", "S", "c", "o", "r", "e">>,
     HardVetoCount |-> <<"H", "a", "r", "d", "V", "e", "t", "o", "C", "o", "u", "n", "t">>,
     HardPositivesCount |-> <<"H", "a", "r", "d", "P", "o", "s", "i", "t", "i", "v", "e", "s", "C", "o", "u", "n", "t">>,
     PricedInRisk |-> <<"P", "r", "i", "c", "e", "d", "I", "n", "R", "i", "s", "k">>,
     GuidanceRaised |-> <<"G", "u", "i", "d", "a", "n", "c", "e", "R", "a", "i", "s", "e", "d">>,
     DemandAcceleration |-> <<"D", "e", "m", "a", "n", "d", "A", "c", "c", "e", "l", "e", "r", "a", "t", "i", "o", "n">>,
     VisibilityImproving |-> <<"V", "i", "s", "i", "b", "i", "l", "i", "t", "y", "I", "m", "p", "r", "o", "v", "i", "n", "g">>,
     LongEligible |-> <<"L", "o", "n", "g", "E", "l", "i", "g", "i", "b", "l", "e">>,
     AnchorNotes |-> <<"A", "n", "c", "h", "o", "r", "N", "o", "t", "e", "s">>,
     note |-> <<"n", "o", "t", "e">>]
\* a value as JSON text; the brackets of a deep value stand for all of them
JsonText(v) ==
    CASE v.kind = "int" -> DecimalOf(v.v)
      [] v.kind = "str" -> <<"\"">> \o v.chars \o <<"\"">>
      [] v.kind = "deep" -> <<"[", "[", "]", "]">>
\* the grave accent, which a string literal here cannot hold
Grave == "grave"
TextTok(chars) == Tok("text", chars, "", Absent, FALSE)
FenceOpen == Tok("fence_open", <<Grave, Grave, Grave, "j", "s", "o", "n">>, "", Absent, FALSE)
FenceClose == Tok("fence_close", <<Grave, Grave, Grave>>, "", Absent, FALSE)
LBrace == Tok("lbrace", <<"{">>, "", Absent, FALSE)
RBrace == Tok("rbrace", <<"}">>, "", Absent, FALSE)
Junk == Tok("junk", <<"o", "o", "p", "s">>, "", Absent, FALSE)
Member(key, value, comma) ==
    Tok("member",
        <<"\"">> \o KeyChars[key] \o <<"\"", ":", " ">> \o JsonText(value)
            \o (IF comma THEN <<",">> ELSE <<>>),
        key, value, comma)
\* a key whose value is the object that follows
KeyTok(key) == Tok("key", <<"\"">> \o KeyChars[key] \o <<"\"", ":">>, key, Absent, FALSE)

\* the text of a sequence of pieces
RECURSIVE Render(_)
Render(t) ==
    IF t = <<>> THEN <<>>
    ELSE IF Len(t) = 1 THEN t[1].text
    ELSE t[1].text \o <<" ">> \o Render(Tail(t))

\* json.loads outcomes
JsonValue(v) == [ok |-> TRUE, value |-> v]
JsonError(error) == [ok |-> FALSE, error |-> error]

\* the members of an object from piece i on; expect is "first" after the
\* brace, "more" after a comma, "end" after a member without one. Gives the
\* fields read and the position after the closing brace, or the exception.
RECURSIVE ParseMembers(_, _, _, _)
ParseMembers(t, i, fields, expect) ==
    IF i > Len(t) THEN JsonError("JSONDecodeError")
    ELSE IF t[i].kind = "rbrace"
    THEN IF expect = "more" THEN JsonError("JSONDecodeError")
         ELSE [ok |-> TRUE, value |-> fields, next |-> i + 1]
    ELSE IF expect = "end" THEN JsonError("JSONDecodeError")
    ELSE IF t[i].kind = "member"
    THEN IF t[i].value.kind = "deep" THEN JsonError("RecursionError")
         ELSE ParseMembers(t, i + 1,
                           IF t[i].key \in DOMAIN fields
                           THEN [fields EXCEPT ![t[i].key] = t[i].value] ELSE fields,
                           IF t[i].comma THEN "more" ELSE "end")
    ELSE IF t[i].kind = "key" /\ i + 1 <= Len(t) /\ t[i + 1].kind = "lbrace"
    THEN LET inner == ParseMembers(t, i + 2, NoFields, "first") IN
         IF inner.ok THEN ParseMembers(t, inner.next, fields, "end") ELSE inner
    ELSE JsonError("JSONDecodeError")

\* json.loads(text) of text that begins with a brace: the dict of the keys
\* the rule reads, or the exception
json_loads(t) ==
    IF t = <<>> \/ t[1].kind # "lbrace" THEN JsonError("JSONDecodeError")
    ELSE LET r == ParseMembers(t, 2, NoFields, "first") IN
         IF ~r.ok THEN r
         ELSE IF r.next # Len(t) + 1 THEN JsonError("JSONDecodeError")
         ELSE JsonValue(r.value)

\* the fenced pattern (fence, json, \s*, group {...} lazily, \s*, fence) tried at piece i, the group ending at piece j
FencedMatch(t, i, j) ==
    /\ t[i].kind = "fence_open"
    /\ i + 1 <= Len(t) /\ t[i + 1].kind = "lbrace"
    /\ j > i + 1 /\ j + 1 <= Len(t)
    /\ t[j].kind = "rbrace"
    /\ t[j + 1].kind \in {"fence_close", "fence_open"}
\* \{\s*"DirectionScore"[\s\S]*?"AnchorNotes"[\s\S]*?\} from piece i to piece j
RawMatch(t, i, j) ==
    /\ t[i].kind = "lbrace"
    /\ i + 1 <= Len(t) /\ t[i + 1].key = "DirectionScore"
    /\ j <= Len(t) /\ t[j].kind = "rbrace"
    /\ \E k \in (i + 2)..(j - 1) : t[k].key = "AnchorNotes"
\* re.search: the leftmost start and, from it, the shortest match
Leftmost(t, Match(_, _, _)) ==
    IF \E i, j \in 1..Len(t) : Match(t, i, j)
    THEN LET i == CHOOSE a \in 1..Len(t) :
                    /\ \E j \in 1..Len(t) : Match(t, a, j)
                    /\ \A b \in 1..(a - 1) : \A j \in 1..Len(t) : ~Match(t, b, j)
             j == CHOOSE c \in 1..Len(t) :
                    /\ Match(t, i, c)
                    /\ \A d \in 1..(c - 1) : ~Match(t, i, d)
         IN [kind |-> "match", from |-> i, to |-> j]
    ELSE None
FencedSearch(t) ==
    LET m == Leftmost(t, FencedMatch) IN
    IF m = None THEN None ELSE [kind |-> "match", group |-> SubSeq(t, m.from + 1, m.to)]
RawSearch(t) ==
    LET m == Leftmost(t, RawMatch) IN
    IF m = None THEN None ELSE [kind |-> "match", group |-> SubSeq(t, m.from, m.to)]

\* what _extract_long_eligible_json ends with
ExtractReturned(v) == [kind |-> "returned", value |-> v]
\* try: return json.loads(...) / except json.JSONDecodeError: pass
ExtractTry(loaded, otherwise) ==
    IF loaded.ok THEN ExtractReturned(loaded.value)
    ELSE IF loaded.error = "JSONDecodeError" THEN otherwise
    ELSE TradeRaised(loaded.error)

\* the second attempt: the raw object
ExtractRaw(summary) ==
    LET json_match == RawSearch(summary.tokens) IN
    IF json_match = None THEN ExtractReturned(None)
    ELSE ExtractTry(json_loads(json_match.group), ExtractReturned(None))

\* _extract_long_eligible_json(summary)
extract_long_eligible_json(summary) ==
    IF summary = None \/ summary.chars = <<>> THEN ExtractReturned(None)
    ELSE LET json_match == FencedSearch(summary.tokens) IN
         IF json_match = None THEN ExtractRaw(summary)
         ELSE ExtractTry(json_loads(json_match.group), ExtractRaw(summary))

\* the object of an eligible record
EligibleObject ==
    <<LBrace,
      Member("DirectionScore", JInt(9), TRUE),
      Member("HardVetoCount", JInt(0), TRUE),
      Member("HardPositivesCount", JInt(3), TRUE),
      Member("PricedInRisk", Str(<<"L", "o", "w">>), TRUE),
      Member("AnchorNotes", Str(<<"o", "k">>), FALSE),
      RBrace>>
\* the same with one hard veto
VetoedObject ==
    <<LBrace,
      Member("DirectionScore", JInt(9), TRUE),
      Member("HardVetoCount", JInt(1), TRUE),
      Member("HardPositivesCount", JInt(3), TRUE),
      Member("PricedInRisk", Str(<<"L", "o", "w">>), TRUE),
      Member("AnchorNotes", Str(<<"o", "k">>), FALSE),
      RBrace>>
\* a bare word between the members
MalformedObject ==
    <<LBrace,
      Member("DirectionScore", JInt(9), TRUE),
      Junk,
      Member("AnchorNotes", Str(<<"o", "k">>), FALSE),
      RBrace>>
\* a comma after the last member
TrailingCommaObject ==
    <<LBrace,
      Member("DirectionScore", JInt(9), TRUE),
      Member("AnchorNotes", Str(<<"o", "k">>), TRUE),
      RBrace>>
\* AnchorNotes holding an object of its own
NestedNotesObject ==
    <<LBrace,
      Member("DirectionScore", JInt(9), TRUE),
      Member("HardVetoCount", JInt(0), TRUE),
      Member("HardPositivesCount", JInt(3), TRUE),
      Member("PricedInRisk", Str(<<"L", "o", "w">>), TRUE),
      KeyTok("AnchorNotes"),
      LBrace,
      Member("note", Str(<<"x">>), FALSE),
      RBrace,
      RBrace>>
\* no AnchorNotes key
NoAnchorObject ==
    <<LBrace,
      Member("DirectionScore", JInt(9), TRUE),
      Member("HardVetoCount", JInt(0), TRUE),
      Member("HardPositivesCount", JInt(3), TRUE),
      Member("PricedInRisk", Str(<<"L", "o", "w">>), FALSE),
      RBrace>>
\* DirectionScore not the first key
VetoFirstObject ==
    <<LBrace,
      Member("HardVetoCount", JInt(0), TRUE),
      Member("DirectionScore", JInt(9), TRUE),
      Member("HardPositivesCount", JInt(3), TRUE),
      Member("PricedInRisk", Str(<<"L", "o", "w">>), TRUE),
      Member("AnchorNotes", Str(<<"o", "k">>), FALSE),
      RBrace>>
\* AnchorNotes nested deeper than the recursion limit
DeepObject ==
    <<LBrace,
      Member("DirectionScore", JInt(9), TRUE),
      Member("AnchorNotes", JDeep, FALSE),
      RBrace>>

\* the record the eligible objects stand for
EligibleRecord ==
    [NoFields EXCEPT !.DirectionScore = JInt(9), !.HardVetoCount = JInt(0),
                     !.HardPositivesCount = JInt(3), !.PricedInRisk = Str(<<"L", "o", "w">>)]
VetoedRecord == [EligibleRecord EXCEPT !.HardVetoCount = JInt(1)]

\* the blocks drawn, each with what it is as a fenced block and as a raw
\* object when it stands alone: a record, Fails (found, not parsed), Raises
\* (found, the parser raises), NoMatch (not found)
Fails == [kind |-> "fail"]
Raises == [kind |-> "raise"]
NoMatch == [kind |-> "nomatch"]
Block(tokens, fenced, raw) == [tokens |-> tokens, fenced |-> fenced, raw |-> raw]
NoBlock == Block(<<>>, None, None)
Blocks ==
    { Block(EligibleObject, EligibleRecord, EligibleRecord),
      Block(VetoedObject, VetoedRecord, VetoedRecord),
      Block(MalformedObject, Fails, Fails),
      Block(TrailingCommaObject, Fails, Fails),
      Block(NestedNotesObject, EligibleRecord, Fails),
      Block(NoAnchorObject, EligibleRecord, NoMatch),
      Block(VetoFirstObject, EligibleRecord, NoMatch),
      Block(DeepObject, Raises, Raises) }
Heads == {<<>>, <<TextTok(<<"D", "i", "r", "e", "c", "t", "i", "o", "n", ":", " ", "8">>)>>, <<TextTok(<<"D", "i", "r", "e", "c", "t", "i", "o", "n", ":", " ", "3">>)>>}
\* head, then the fenced block and the raw object in either order
Documents ==
    { [head |-> head, fenced |-> f, raw |-> r, raw_first |-> o] :
        head \in Heads, f \in Blocks \cup {NoBlock}, r \in Blocks \cup {NoBlock},
        o \in BOOLEAN }
Fence(b) == IF b = NoBlock THEN <<>> ELSE <<FenceOpen>> \o b.tokens \o <<FenceClose>>
DocumentTokens(d) ==
    IF d.raw_first THEN d.head \o d.raw.tokens \o Fence(d.fenced)
    ELSE d.head \o Fence(d.fenced) \o d.raw.tokens
DocumentSummary(d) ==
    [kind |-> "str", chars |-> Render(DocumentTokens(d)), tokens |-> DocumentTokens(d)]
BridgeSectors == {None, Str(<<"T", "e", "c", "h", "n", "o", "l", "o", "g", "y">>)}

\* the agent's output reaches the end of run_single_call_from_context
BridgeCall ==
    /\ br.pc = "idle"
    /\ \E d \in Documents, sector \in BridgeSectors :
         br' = [br EXCEPT !.pc = "called", !.input = d,
                          !.summary = DocumentSummary(d), !.sector = sector]
    /\ UNCHANGED <<core, flags, enr, rt, world>>

\* prediction, confidence = _infer_direction(summary); long_eligible_json =
\* _extract_long_eligible_json(summary); trade_long = _compute_trade_long(...)
BridgeReturn ==
    /\ br.pc = "called"
    /\ LET direction == infer_direction(br.summary)
           extracted == extract_long_eligible_json(br.summary)
           trade == IF extracted.kind = "raised" THEN extracted
                    ELSE compute_trade_long(extracted.value, br.sector)
       IN br' = [br EXCEPT
                   !.pc = "done",
                   !.long_json = IF extracted.kind = "raised" THEN None
                                 ELSE extracted.value,
                   !.out = IF trade.kind = "raised" THEN trade
                           ELSE [kind |-> "dict",
                                 prediction |-> direction.prediction,
                                 confidence |-> direction.confidence,
                                 trade_long |-> trade.value,
                                 long_eligible_json |-> extracted.value]]
    /\ UNCHANGED <<core, flags, enr, rt, world>>

NextBridge == BridgeCall \/ BridgeReturn
SpecBridge == Init /\ [][NextBridge]_vars

(* ------------- retry delays of concurrent invocations ------------------- *)
\* time.sleep(delay) of _retry is in progress in invocation p
Sleeping(p) == pc[p] \in {"hist_sleep", "live_sleep"}
\* the scheduler thread is inside a synchronous call of invocation p that takes time
SchedulerHeldBy(p) == Sleeping(p) /\ Exec(args[p].entry, "time.sleep") = "scheduler"
\* the scheduler thread can run a step of invocation p
SchedulerFree(p) == \A q \in Procs \ {p} : ~SchedulerHeldBy(q)
\* the thread that runs op for invocation p is available
CanRun(p, op) == Exec(args[p].entry, op) \in {"awaited", "scheduler"} => SchedulerFree(p)

\* the arguments of the concurrent invocations
DelayRequests == {<<<<"A">>, 2024, 1>>}

\* a task calls analyze_earnings_async(..., skip_cache=True)
DelayStart(p) ==
    /\ pc[p] = "idle"
    /\ \E r \in DelayRequests :
        args' = [args EXCEPT ![p] = [entry |-> "async", symbol |-> r[1], year |-> r[2],
                                     quarter |-> r[3], skip_cache |-> TRUE]]
    /\ pc' = [pc EXCEPT ![p] = FirstStep("async", TRUE)]
    /\ started' = started + 1
    /\ UNCHANGED <<shared, nextJob, seen, ctx, retry, work, ret, log>>

\* run_agentic_rag in an environment without USE_PG_DB_AGENTS
GuardSkipOff(p) == Guard(p) /\ ~work'[p].skip_neo4j_ingest

\* the ingestion call a step of the pipeline retries
IngestOpOf(step) ==
    IF step = "hist" THEN "ingest_recent_history_into_neo4j" ELSE "ingest_context_into_neo4j"

\* one pass of _retry's loop up to time.sleep: func() returns, or it raises
\* and the delay begins
IngestAttempt(p) ==
    /\ pc[p] \in {"hist", "live"}
    /\ \/ /\ log' = Logged(p, IngestOpOf(pc[p]), TRUE)
          /\ retry' = [retry EXCEPT ![p] = NoRetry]
          /\ pc' = [pc EXCEPT ![p] = IF pc[p] = "hist" THEN "live" ELSE "predict"]
       \/ \E exc \in IngestErrors :
          /\ CanRun(p, "time.sleep")
          /\ log' = Logged(p, IngestOpOf(pc[p]), FALSE)
          /\ retry' = [retry EXCEPT ![p] = RetryFailed(retry[p], exc)]
          /\ pc' = [pc EXCEPT ![p] = IF pc[p] = "hist" THEN "hist_sleep" ELSE "live_sleep"]
    /\ UNCHANGED <<shared, nextJob, started, args, seen, ctx, work, ret>>

\* time.sleep(delay) returns: the loop goes on, or it is over and last_exc is
\* raised into the except branch of run_agentic_rag
IngestWake(p) ==
    /\ Sleeping(p)
    /\ log' = Logged(p, "time.sleep", TRUE)
    /\ IF RetryExhausted(retry[p])
       THEN /\ ctx' = [ctx EXCEPT ![p].ingest_warning =
                         IF pc[p] = "hist_sleep"
                         THEN WarningAfterHistorical(@, retry[p].last_exc)
                         ELSE WarningAfterLive(@, retry[p].last_exc)]
            /\ retry' = [retry EXCEPT ![p] = NoRetry]
            /\ pc' = [pc EXCEPT ![p] = IF pc[p] = "hist_sleep" THEN "live" ELSE "predict"]
       ELSE /\ pc' = [pc EXCEPT ![p] = IF pc[p] = "hist_sleep" THEN "hist" ELSE "live"]
            /\ UNCHANGED <<ctx, retry>>
    /\ UNCHANGED <<shared, nextJob, started, args, seen, work, ret>>

\* the steps of analyze_earnings_async that run on the scheduler thread
DelayContext(p) == CanRun(p, "get_earnings_context") /\ Context(p)
DelayT2Write(p) == CanRun(p, "set_cached_payload") /\ T2Write(p)
DelayT1Write(p) == CanRun(p, "cache_set_json") /\ T1Write(p)

NextDelay ==
    \E p \in Procs :
        \/ DelayStart(p)
        \/ DelayContext(p)
        \/ GuardSkipOff(p)
        \/ IngestAttempt(p)
        \/ IngestWake(p)
        \/ Predict(p)
        \/ Persist(p)
        \/ Backtest(p)
        \/ DelayT2Write(p)
        \/ DelayT1Write(p)

SpecDelay == Init /\ [][NextDelay]_vars

(* --------------------------- _retry on its own -------------------------- *)
\* values of the delay argument, in time units (the default is 1.0)
RetryDelays == {1, 2}

\* what the n-th call of func() raises or returns
RetryExc(type, n) == [kind |-> "exception", type |-> type, call |-> n]
RetryResult(n) == [kind |-> "result", call |-> n]

\* the events of one run: calls of func() and calls of time.sleep
RetryCalls(trace) == Cardinality({j \in 1..Len(trace) : trace[j].ev = "call"})
RetrySleeps(trace) == Cardinality({j \in 1..Len(trace) : trace[j].ev = "sleep"})

\* the except branch without time.sleep(delay)
RetryAfterFailureNoSleep(trace, exc, delay) ==
    Append(trace, [ev |-> "call", ok |-> FALSE, exc |-> exc])

\* func() raised exc: except Exception as exc: ...; time.sleep(delay)
RetryAfterFailure(trace, exc, delay) ==
    trace \o <<[ev |-> "call", ok |-> FALSE, exc |-> exc], [ev |-> "sleep", secs |-> delay]>>

\* last_exc kept from the first failure on
RetryKeepFirstExc(old, exc) == IF old = None THEN exc ELSE old

\* last_exc = exc
RetryLastExc(old, exc) == exc

\* a caller invokes _retry(func, attempts, delay)
RetryEnter ==
    /\ rt.pc = "idle"
    /\ \E n \in 0..MaxRetryAttempts, d \in RetryDelays :
        rt' = [NoRt EXCEPT !.pc = "loop", !.attempts = n, !.delay = d]
    /\ UNCHANGED <<core, flags, enr, pure>>

\* one pass of "for _ in range(attempts)": return func(), or record and sleep
RetryAttempt ==
    /\ rt.pc = "loop"
    /\ rt.i < rt.attempts
    /\ LET n == RetryCalls(rt.trace) + 1 IN
       \/ rt' = [rt EXCEPT !.pc = "returned", !.out = RetryResult(n),
                           !.trace = Append(@, [ev |-> "call", ok |-> TRUE, exc |-> None])]
       \/ \E type \in IngestErrors :
          rt' = [rt EXCEPT !.i = @ + 1,
                           !.last_exc = RetryLastExc(@, RetryExc(type, n)),
                           !.trace = RetryAfterFailure(@, RetryExc(type, n), rt.delay)]
    /\ UNCHANGED <<core, flags, enr, pure>>

\* the loop is over: if last_exc: raise last_exc (else the function returns None)
RetryLeave ==
    /\ rt.pc = "loop"
    /\ rt.i >= rt.attempts
    /\ rt' = IF rt.last_exc # None
             THEN [rt EXCEPT !.pc = "raised", !.out = rt.last_exc]
             ELSE [rt EXCEPT !.pc = "returned", !.out = None]
    /\ UNCHANGED <<core, flags, enr, pure>>

NextRetry == RetryEnter \/ RetryAttempt \/ RetryLeave

SpecRetry == Init /\ [][NextRetry]_vars

(* ------------------------------ claims --------------------------------- *)
Ops(p) == [i \in 1..Len(log[p]) |-> log[p][i].op]
Has(p, op) == \E i \in 1..Len(log[p]) : log[p][i].op = op
Async(p) == pc[p] # "idle" /\ args[p].entry = "async"
KeyOf(p) == CacheKey(args[p].symbol, args[p].year, args[p].quarter)
DbKeyOf(p) == DbKey(args[p].symbol, args[p].year, args[p].quarter)
CacheOps == {"cache_get_json", "get_cached_payload", "set_cached_payload", "cache_set_json"}
CacheWrites == {"set_cached_payload", "cache_set_json"}
IngestOps == {"ingest_recent_history_into_neo4j", "ingest_context_into_neo4j"}
\* the collaborators that are plain synchronous functions
SyncCollaborators ==
    {"get_cached_payload", "ingest_recent_history_into_neo4j", "ingest_context_into_neo4j",
     "run_single_call_from_context", "record_analysis", "compute_earnings_backtest",
     "set_cached_payload"}
\* attempts of op that raised (each is followed by the retry delay)
FailedAttempts(p, op) ==
    Cardinality({i \in 1..Len(log[p]) : log[p][i].op = op /\ ~log[p][i].ok})
\* the context builder returned a context to this invocation
ContextBuilt(p) ==
    \E i \in 1..Len(log[p]) : log[p][i].op = "get_earnings_context" /\ log[p][i].ok

\* C1: an invocation of analyze_earnings_async fails only because of an empty
\* transcript, a bridge error of the prediction call or a wrapped prediction
\* error; an exception of any other step never reaches the caller.
C1_FailsOnlyAtGuardOrPrediction ==
    \A p \in Procs :
        (Async(p) /\ ret[p].status = "fail") =>
            /\ ret[p].stage \in {"guard", "run_single_call_from_context"}
            /\ ret[p].error \in {"NoTranscriptError", "AgenticRagBridgeError", "RuntimeError"}

\* C2 as stated: with an empty or whitespace-only transcript the no-transcript
\* error is raised before any cache call (read or write) and any ingestion call.
C2_NoCacheCallBeforeNoTranscript ==
    \A p \in Procs :
        (Async(p) /\ ret[p].error = "NoTranscriptError") =>
            \A i \in 1..Len(log[p]) : log[p][i].op \notin CacheOps \cup IngestOps

\* C2 amended: once the context builder has returned an empty or whitespace-only
\* transcript, the invocation fails with the no-transcript error and has made no
\* cache write, no ingestion call and no prediction call; its only cache calls
\* are the Tier-1 and Tier-2 lookups made before the context was built, and
\* those only when forced refresh is off.
C2_NoTranscriptBeforeWritesAndIngestion ==
    \A p \in Procs :
        (ContextBuilt(p) /\ pc[p] # "guard" /\ Strip(ctx[p].transcript_text) = <<>>) =>
            /\ pc[p] = "fail"
            /\ ret[p] = Raised("guard", "NoTranscriptError")
            /\ Ops(p) = (IF args[p].entry = "async" /\ ~args[p].skip_cache
                         THEN <<"cache_get_json", "get_cached_payload">> ELSE <<>>)
                        \o <<"get_earnings_context">>

C2_Witness ==
    \E p \in Procs :
        /\ Async(p) /\ ~args[p].skip_cache
        /\ ctx[p].transcript_text = <<" ">>
        /\ ret[p].error = "NoTranscriptError"

\* C3: with both enrichment calls enabled, when one client call raises and the
\* other returns, the payload holds the other's result under its key and an
\* {"error": message} object under the key of the call that raised.
ErrorObject(x) == x.kind = "dict" /\ "error" \in DOMAIN x /\ x.error # ""
C3_RaisedCallLeavesErrorObject ==
    (enr.pc = "done" /\ flags.metrics /\ flags.validation) =>
        /\ (enr.metrics.client = "raised" /\ enr.validation.client = "returned") =>
              /\ enr.payload.backtester_validation = enr.validation.result
              /\ ErrorObject(enr.payload.performance_metrics)
        /\ (enr.validation.client = "raised" /\ enr.metrics.client = "returned") =>
              /\ enr.payload.performance_metrics = enr.metrics.result
              /\ ErrorObject(enr.payload.backtester_validation)

\* C4: a payload returned from a cache hit has the lookup's year and quarter
\* and the upper-cased lookup symbol.
C4_CacheHitMatchesLookup ==
    \A p \in Procs :
        (Async(p) /\ pc[p] = "done" /\ (IsHit(seen[p].t1) \/ IsHit(seen[p].t2))) =>
            /\ ret[p].payload.year = args[p].year
            /\ ret[p].payload.quarter = args[p].quarter
            /\ ret[p].payload.symbol = Upper(args[p].symbol)

\* C5: when the historical backfill and the live ingest both exhaust their
\* retries, the warning holds a message for each, and the prediction call is
\* still made.
C5_BothIngestFailuresInWarning ==
    \A p \in Procs :
        (/\ FailedAttempts(p, "ingest_recent_history_into_neo4j") = RetryAttempts
         /\ FailedAttempts(p, "ingest_context_into_neo4j") = RetryAttempts) =>
            /\ Len(ctx[p].ingest_warning) = 2
            /\ \E e \in IngestErrors : ctx[p].ingest_warning[1] = HistoricalMsg(e)[1]
            /\ \E e \in IngestErrors : ctx[p].ingest_warning[2] = LiveMsg(e)[1]
            /\ pc[p] = "predict" \/ Has(p, "run_single_call_from_context")

\* C6: the blocking and the async entry point, given the same arguments and the
\* same collaborator behaviour, return the same payload (job id apart) and make
\* the same cache reads and writes.
IsCacheCall(c) == c.op \in CacheOps
IsPipelineCall(c) == c.op \notin CacheOps
Outcomes(calls) == [i \in 1..Len(calls) |-> [op |-> calls[i].op, ok |-> calls[i].ok]]
SameRun(p, q) ==
    /\ pc[p] = "done" /\ pc[q] = "done"
    /\ args[p].entry = "sync" /\ args[q].entry = "async"
    /\ <<args[p].symbol, args[p].year, args[p].quarter>>
         = <<args[q].symbol, args[q].year, args[q].quarter>>
    /\ Outcomes(SelectSeq(log[p], IsPipelineCall)) = Outcomes(SelectSeq(log[q], IsPipelineCall))
    /\ ctx[p] = ctx[q]
    /\ [work[p] EXCEPT !.job_id = 0] = [work[q] EXCEPT !.job_id = 0]
SamePayload(x, y) ==
    IF x.kind = "dict" /\ y.kind = "dict"
    THEN [x EXCEPT !.job_id = 0] = [y EXCEPT !.job_id = 0]
    ELSE x.kind = y.kind
C6_BlockingAndAsyncAgree ==
    \A p, q \in Procs :
        SameRun(p, q) =>
            /\ ret[p].status = ret[q].status
            /\ SamePayload(ret[p].payload, ret[q].payload)
            /\ Outcomes(SelectSeq(log[p], IsCacheCall)) = Outcomes(SelectSeq(log[q], IsCacheCall))

\* C7: on the async path every call to a synchronous collaborator runs on a
\* separate worker, never on the scheduler thread.
C7_SyncCollaboratorsOnWorker ==
    \A p \in Procs :
        Async(p) =>
            \A i \in 1..Len(log[p]) :
                log[p][i].op \in SyncCollaborators => log[p][i].on = "worker"

\* C8: with forced refresh off, when Tier 1 holds a mapping with a non-empty
\* symbol under the cache key, the call returns exactly that payload and its
\* only collaborator call is the Tier-1 read (no Tier-2 read, context assembly,
\* ingestion, prediction, persistence, backtest or cache write).
C8_Tier1HitShortCircuits ==
    \A p \in Procs :
        (/\ Async(p) /\ pc[p] # "t1_read"
         /\ seen[p].t1.kind = "dict" /\ seen[p].t1.symbol # <<>>) =>
            /\ pc[p] = "done"
            /\ ret[p] = Returned(seen[p].t1)
            /\ log[p] = <<Call(p, "cache_get_json", TRUE)>>
            /\ tier1[KeyOf(p)] = seen[p].t1

C8_Witness ==
    \E p \in Procs :
        /\ Async(p) /\ pc[p] = "done"
        /\ seen[p].t1.kind = "dict" /\ seen[p].t1.symbol # <<>>
        /\ ret[p].payload = seen[p].t1
        /\ ret[p].payload.job_id # work[p].job_id

\* C9: Tier 2 is read only after a Tier-1 miss; on a Tier-2 hit the payload is
\* written to Tier 1 under the cache key before the call returns that same
\* payload, without running the pipeline; if the back-fill write raises, the
\* payload is still returned and no error reaches the caller.
C9_Tier2HitBackfillsAndReturns ==
    \A p \in Procs :
        Async(p) =>
            /\ Has(p, "get_cached_payload") =>
                  /\ log[p][1] = Call(p, "cache_get_json", TRUE)
                  /\ log[p][2].op = "get_cached_payload"
                  /\ ~(seen[p].t1.kind = "dict" /\ seen[p].t1.symbol # <<>>)
            /\ (seen[p].t2.kind = "dict" /\ seen[p].t2.symbol # <<>> /\ pc[p] # "t1_backfill") =>
                  /\ pc[p] = "done"
                  /\ ret[p] = Returned(seen[p].t2)
                  /\ Ops(p) = <<"cache_get_json", "get_cached_payload", "cache_set_json">>
                  /\ log[p][3].ok => tier1[KeyOf(p)] = seen[p].t2

C9_Witness ==
    \E p \in Procs :
        /\ Async(p) /\ pc[p] = "done"
        /\ seen[p].t2.kind = "dict" /\ seen[p].t2.symbol # <<>>
        /\ ~log[p][3].ok
        /\ ret[p] = Returned(seen[p].t2)
        /\ tier1[KeyOf(p)] # seen[p].t2

\* C10: after a successful pipeline run the payload is written to Tier 2 first
\* and then to Tier 1; a Tier-2 write that raises does not stop the Tier-1
\* write, and whichever writes raise, the call returns the payload.
C10_WritesTier2ThenTier1 ==
    \A p \in Procs :
        (Async(p) /\ Has(p, "compute_earnings_backtest")) =>
            LET n == Len(log[p]) IN
            /\ pc[p] \in {"t2_write", "t1_write", "done"}
            /\ pc[p] = "t2_write" => \A i \in 1..n : log[p][i].op \notin CacheWrites
            /\ pc[p] = "t1_write" =>
                  /\ log[p][n].op = "set_cached_payload"
                  /\ \A i \in 1..(n - 1) : log[p][i].op \notin CacheWrites
                  /\ log[p][n].ok => tier2[DbKeyOf(p)] = Payload(p)
            /\ pc[p] = "done" =>
                  /\ log[p][n - 1].op = "set_cached_payload"
                  /\ log[p][n].op = "cache_set_json"
                  /\ \A i \in 1..(n - 2) : log[p][i].op \notin CacheWrites
                  /\ log[p][n - 1].ok => tier2[DbKeyOf(p)] = Payload(p)
                  /\ log[p][n].ok => tier1[KeyOf(p)] = Payload(p)
                  /\ ret[p] = Returned(Payload(p))

C10_Witness ==
    \E p \in Procs :
        /\ Async(p) /\ pc[p] = "done" /\ Has(p, "compute_earnings_backtest")
        /\ ~log[p][Len(log[p]) - 1].ok
        /\ ~log[p][Len(log[p])].ok
        /\ ret[p] = Returned(Payload(p))

\* the calls of func() in a run of _retry, in order
RetryCallEvents == SelectSeq(rt.trace, LAMBDA e : e.ev = "call")
RetryFailedCalls == Cardinality({j \in 1..Len(rt.trace) : rt.trace[j].ev = "call" /\ ~rt.trace[j].ok})

\* C13: when func() fails k times (k < attempts) and then succeeds, _retry has
\* called it exactly k+1 times, returns the result of call k+1, has slept
\* exactly k times, and the successful call is the last event of the run.
C13_SuccessAfterKFailures ==
    (rt.pc = "returned" /\ rt.out.kind = "result") =>
        LET k == RetryFailedCalls IN
        /\ k < rt.attempts
        /\ RetryCalls(rt.trace) = k + 1
        /\ rt.out = RetryResult(k + 1)
        /\ RetrySleeps(rt.trace) = k
        /\ rt.trace[Len(rt.trace)].ev = "call" /\ rt.trace[Len(rt.trace)].ok
        /\ \A j \in 1..(Len(rt.trace) - 1) : rt.trace[j].ev = "call" => ~rt.trace[j].ok

C13_Witness ==
    /\ rt.pc = "returned" /\ rt.attempts = 3
    /\ RetryFailedCalls = 2
    /\ rt.out = RetryResult(3)
    /\ RetrySleeps(rt.trace) = 2

\* C14: when func() fails on every call, _retry with attempts = N (N >= 1)
\* makes exactly N calls and then raises the exception of the N-th call.
C14_AlwaysFailingRaisesLast ==
    /\ (rt.pc = "raised") =>
          /\ RetryCalls(rt.trace) = rt.attempts
          /\ RetryFailedCalls = rt.attempts
          /\ rt.out = RetryCallEvents[rt.attempts].exc
          /\ rt.out.call = rt.attempts
    /\ (rt.pc = "returned" /\ rt.attempts >= 1) => RetryFailedCalls < RetryCalls(rt.trace)

C14_Witness ==
    /\ rt.pc = "raised" /\ rt.attempts = 3
    /\ RetryCallEvents[1].exc.type # RetryCallEvents[3].exc.type
    /\ rt.out = RetryCallEvents[3].exc

\* C15: an operation that fails all N attempts observes exactly N-1 delays,
\* none of them after the final failed attempt.
C15_NoDelayAfterLastAttempt ==
    (rt.pc = "raised") =>
        /\ RetrySleeps(rt.trace) = rt.attempts - 1
        /\ rt.trace[Len(rt.trace)].ev # "sleep"

\* position of the first call of op in the invocation's log (0: none)
IndexOf(p, op) ==
    IF Has(p, op) THEN CHOOSE i \in 1..Len(log[p]) :
                          /\ log[p][i].op = op
                          /\ \A j \in 1..(i - 1) : log[p][j].op # op
    ELSE 0
\* the prediction call of the invocation returned / raised
Predicted(p) ==
    \E i \in 1..Len(log[p]) : log[p][i].op = "run_single_call_from_context" /\ log[p][i].ok
PredictFailed(p) ==
    \E i \in 1..Len(log[p]) : log[p][i].op = "run_single_call_from_context" /\ ~log[p][i].ok

\* C16: when the prediction call raises, the invocation fails at that step and
\* the call was the last one it made (no persistence, backtest or cache write);
\* the caller sees either the bridge error itself, unwrapped, or a RuntimeError
\* whose cause is the other exception.
C16_PredictErrorReachesCaller ==
    \A p \in Procs :
        PredictFailed(p) =>
            /\ pc[p] = "fail"
            /\ ret[p].status = "fail" /\ ret[p].stage = "run_single_call_from_context"
            /\ \/ ret[p].error = "AgenticRagBridgeError" /\ ret[p].cause = "none"
               \/ ret[p].error = "RuntimeError" /\ ret[p].cause = "Exception"
            /\ log[p][Len(log[p])] = Call(p, "run_single_call_from_context", FALSE)
            /\ work[p].job_id \notin persisted

C16_Witness ==
    \E p \in Procs :
        /\ Async(p) /\ pc[p] = "fail"
        /\ PredictFailed(p)
        /\ ret[p].error = "RuntimeError" /\ ret[p].cause = "Exception"

\* C17: once the prediction call has returned, analyze_earnings_async goes
\* through persistence, backtest, the Tier-2 write and the Tier-1 write in that
\* order whichever of them raise, and returns the payload with the prediction
\* result; after a backtest failure the payload's backtest is absent.
LaterSteps == <<"record_analysis", "compute_earnings_backtest", "set_cached_payload",
                "cache_set_json">>
LaterStepsDone(step) ==
    CASE step = "persist" -> 0 [] step = "backtest" -> 1 [] step = "t2_write" -> 2
      [] step = "t1_write" -> 3 [] OTHER -> 4
C17_LaterFailuresSwallowed ==
    \A p \in Procs :
        (Async(p) /\ Predicted(p)) =>
            LET i == IndexOf(p, "run_single_call_from_context")
                n == Len(log[p]) IN
            /\ pc[p] \in {"persist", "backtest", "t2_write", "t1_write", "done"}
            /\ SubSeq(Ops(p), i + 1, n) = SubSeq(LaterSteps, 1, LaterStepsDone(pc[p]))
            /\ pc[p] = "done" =>
                  /\ ret[p] = Returned(Payload(p))
                  /\ ret[p].payload.prediction = work[p].prediction
                  /\ ret[p].payload.prediction \in Predictions
                  /\ ~log[p][i + 2].ok => ret[p].payload.backtest = "none"

C17_Witness ==
    \E p \in Procs :
        /\ Async(p) /\ pc[p] = "done" /\ Predicted(p)
        /\ \A j \in 1..Len(log[p]) : log[p][j].op \in {"record_analysis",
               "compute_earnings_backtest", "set_cached_payload", "cache_set_json"}
               => ~log[p][j].ok
        /\ ret[p].payload.prediction = "UP" /\ ret[p].payload.backtest = "none"

\* C18: with skip_cache true the invocation reads neither tier and starts with
\* context assembly, whatever the tiers hold; when it succeeds, each tier whose
\* write returned holds the new payload.
C18_ForcedRefreshBypassesLookup ==
    \A p \in Procs :
        (Async(p) /\ args[p].skip_cache) =>
            /\ \A i \in 1..Len(log[p]) : log[p][i].op \notin {"cache_get_json", "get_cached_payload"}
            /\ seen[p] = NoSeen
            /\ pc[p] # "t1_read" /\ pc[p] # "t2_read" /\ pc[p] # "t1_backfill"
            /\ log[p] # <<>> => log[p][1].op = "get_earnings_context"
            /\ pc[p] = "done" =>
                  LET n == Len(log[p]) IN
                  /\ log[p][n - 1].op = "set_cached_payload" /\ log[p][n].op = "cache_set_json"
                  /\ log[p][n - 1].ok => tier2[DbKeyOf(p)] = ret[p].payload
                  /\ log[p][n].ok => tier1[KeyOf(p)] = ret[p].payload
                  /\ ret[p].payload.job_id = work[p].job_id

C18_Witness ==
    \E p \in Procs :
        /\ Async(p) /\ args[p].skip_cache /\ pc[p] = "t2_write"
        /\ tier1[KeyOf(p)].kind = "dict" /\ tier1[KeyOf(p)].symbol # <<>>
        /\ tier2[DbKeyOf(p)].kind = "dict" /\ tier2[DbKeyOf(p)].symbol # <<>>
        /\ tier1[KeyOf(p)].job_id # work[p].job_id
        /\ tier2[DbKeyOf(p)].job_id # work[p].job_id

\* C19: a tier entry that is not a mapping, or is a mapping with an empty
\* symbol, is a miss: after such a Tier-1 read the Tier-2 read follows, after
\* such a Tier-2 read context assembly follows, and a payload returned without
\* running the pipeline is always a mapping with a non-empty symbol.
ValidEntry(e) == e.kind = "dict" /\ e.symbol # <<>>
C19_InvalidEntryIsMiss ==
    \A p \in Procs :
        (Async(p) /\ ~args[p].skip_cache) =>
            LET n == Len(log[p]) IN
            /\ (n >= 1 /\ log[p][1].ok /\ ~ValidEntry(seen[p].t1)) =>
                  \/ pc[p] = "t2_read" /\ n = 1
                  \/ n >= 2 /\ log[p][2].op = "get_cached_payload"
            /\ (n >= 2 /\ ~ValidEntry(seen[p].t2)) =>
                  \/ pc[p] = "context" /\ n = 2
                  \/ n >= 3 /\ log[p][3].op = "get_earnings_context"
            /\ (pc[p] = "done" /\ ~Has(p, "get_earnings_context")) =>
                  /\ ValidEntry(ret[p].payload)
                  /\ ret[p].payload \in {seen[p].t1, seen[p].t2}

C19_Witness ==
    \E p \in Procs :
        /\ Async(p) /\ ~args[p].skip_cache
        /\ seen[p].t1.kind = "dict" /\ seen[p].t1.symbol = <<>>
        /\ seen[p].t2.kind = "dict" /\ seen[p].t2.symbol = <<>>
        /\ ContextBuilt(p)

\* C20: with the skip toggle on, the invocation makes no ingestion call and no
\* retry delay and adds no ingestion warning; the prediction call is the call
\* right after context assembly, and an empty transcript still fails the
\* invocation with the no-transcript error.
C20_SkipToggleSkipsIngestion ==
    \A p \in Procs :
        (pc[p] # "idle" /\ work[p].skip_neo4j_ingest) =>
            LET i == IndexOf(p, "get_earnings_context") IN
            /\ \A j \in 1..Len(log[p]) : log[p][j].op \notin IngestOps \cup {"time.sleep"}
            /\ ctx[p].ingest_warning = <<>>
            /\ retry[p] = NoRetry
            /\ Strip(ctx[p].transcript_text) = <<>> =>
                  /\ ret[p] = Raised("guard", "NoTranscriptError")
                  /\ i = Len(log[p])
            /\ Strip(ctx[p].transcript_text) # <<>> =>
                  \/ pc[p] = "predict" /\ i = Len(log[p])
                  \/ i < Len(log[p]) /\ log[p][i + 1].op = "run_single_call_from_context"

C20_Witness ==
    \E p \in Procs :
        /\ work[p].skip_neo4j_ingest /\ pc[p] = "done"
        /\ Predicted(p)
        /\ ret[p].payload.ingest_warning = <<>>

\* _retry of op is over: a call of op returned, or RetryAttempts calls raised
RetryOver(p, op) ==
    \/ \E i \in 1..Len(log[p]) : log[p][i].op = op /\ log[p][i].ok
    \/ FailedAttempts(p, op) = RetryAttempts
\* the enrichment has been entered or one of its client calls has been made
EnrichmentStarted ==
    \/ enr.pc \in {"gather", "done"}
    \/ enr.metrics.pc # "created"
    \/ enr.validation.pc # "created"

\* C11: within one invocation every attempt of the historical backfill (with
\* its retry delays) precedes the first attempt of the live ingest, and the
\* live ingest starts only when the backfill's retry is over; every attempt of
\* the live ingest precedes the prediction call, which starts only when that
\* retry is over; a pipeline run writes a cache tier only after the prediction
\* call returned (the only other cache write is the Tier-1 back-fill of a
\* Tier-2 hit); the enrichment starts only after the base call returned its
\* payload, and works on that payload.
C11_StepsInOrder ==
    \A p \in Procs :
        LET n == Len(log[p])
            hist == "ingest_recent_history_into_neo4j"
            live == "ingest_context_into_neo4j"
            predict == "run_single_call_from_context" IN
        /\ \A i, j \in 1..n : (log[p][i].op = hist /\ log[p][j].op = live) => i < j
        /\ (pc[p] = "live" \/ Has(p, live)) => RetryOver(p, hist)
        /\ \A i, j \in 1..n :
              (log[p][i].op \in IngestOps \cup {"time.sleep"} /\ log[p][j].op = predict) => i < j
        /\ ((pc[p] = "predict" \/ Has(p, predict)) /\ ~work[p].skip_neo4j_ingest) =>
              RetryOver(p, live)
        /\ \A i \in 1..n :
              log[p][i].op \in CacheWrites =>
                 \/ \E j \in 1..(i - 1) : log[p][j].op = predict /\ log[p][j].ok
                 \/ /\ ~Has(p, "get_earnings_context")
                    /\ log[p][i].op = "cache_set_json"
                    /\ i = 3 /\ log[p][2] = Call(p, "get_cached_payload", TRUE)
        /\ (p = Caller /\ EnrichmentStarted) =>
              /\ pc[p] = "done"
              /\ ret[p].status = "done"
              /\ enr.payload.base = ret[p].payload
              /\ Has(p, "get_earnings_context") => enr.payload.base = Payload(p)

C11_Witness ==
    /\ enr.pc = "done" /\ enr.metrics.client = "returned" /\ enr.validation.client = "returned"
    /\ FailedAttempts(Caller, "ingest_recent_history_into_neo4j") = RetryAttempts
    /\ FailedAttempts(Caller, "ingest_context_into_neo4j") = RetryAttempts - 1
    /\ Predicted(Caller)
    /\ log[Caller][Len(log[Caller])] = Call(Caller, "cache_set_json", TRUE)
    /\ enr.payload.base = Payload(Caller)

\* C12: two invocations for the same key that both miss both tiers each make
\* their own prediction and persistence call under their own job id; a write
\* that returns stores the writer's payload whatever the tier holds (no lock,
\* the last writer wins), and a tier changes only by such a write.
BothMissed(p, q) ==
    /\ p # q
    /\ Async(p) /\ Async(q)
    /\ KeyOf(p) = KeyOf(q)
    /\ ContextBuilt(p) /\ ContextBuilt(q)
    /\ pc[p] = "done" /\ pc[q] = "done"
WroteTier1(p) ==
    /\ pc[p] \in {"t1_write", "t1_backfill"} /\ pc'[p] = "done"
    /\ log'[p][Len(log'[p])].ok
WroteTier2(p) ==
    /\ pc[p] = "t2_write" /\ pc'[p] = "t1_write"
    /\ log'[p][Len(log'[p])].ok
C12_EachRunsPipeline ==
    \A p, q \in Procs :
        BothMissed(p, q) =>
            /\ Predicted(p) /\ Predicted(q)
            /\ Has(p, "record_analysis") /\ Has(q, "record_analysis")
            /\ work[p].job_id # work[q].job_id
            /\ ret[p].payload.job_id = work[p].job_id
            /\ ret[q].payload.job_id = work[q].job_id
C12_LastWriterStep ==
    /\ \A p \in Procs :
          /\ WroteTier1(p) =>
                tier1' = [tier1 EXCEPT ![KeyOf(p)] =
                            IF pc[p] = "t1_write" THEN Payload(p) ELSE seen[p].t2]
          /\ WroteTier2(p) => tier2' = [tier2 EXCEPT ![DbKeyOf(p)] = Payload(p)]
    /\ tier1' # tier1 => \E p \in Procs : WroteTier1(p)
    /\ tier2' # tier2 => \E p \in Procs : WroteTier2(p)
C12_NoMutualExclusionLastWriterWins == [](C12_EachRunsPipeline) /\ [][C12_LastWriterStep]_vars

C12_Witness ==
    \E p, q \in Procs :
        /\ BothMissed(p, q)
        /\ \A i \in 1..Len(log[p]) : log[p][i].ok
        /\ \A i \in 1..Len(log[q]) : log[q][i].ok
        /\ work[p].job_id # work[q].job_id
        /\ tier1[KeyOf(p)] = Payload(p)
        /\ tier2[DbKeyOf(p)] = Payload(q)

\* C26: the flag computed in the persistence step is absent when the context
\* has no post-earnings return or the prediction is UNKNOWN or absent;
\* otherwise it is return > 0 for UP, return < 0 for DOWN and |return| < 0.01
\* for NEUTRAL (a return of 0 is False for UP and for DOWN), on either entry
\* point.
C26_CorrectnessFlag ==
    \A p \in Procs :
        Has(p, "record_analysis") =>
            LET r == ctx[p].post_earnings_return
                pr == work[p].prediction
                flag == work[p].correct IN
            /\ (r = None \/ pr \in {"UNKNOWN", "none"}) => flag = "None"
            /\ (r # None /\ pr \in {"UP", "up"}) => flag = (IF r.milli > 0 THEN "True" ELSE "False")
            /\ (r # None /\ pr = "DOWN") => flag = (IF r.milli < 0 THEN "True" ELSE "False")
            /\ (r # None /\ pr = "NEUTRAL") =>
                  flag = (IF r.milli < 10 /\ r.milli > -10 THEN "True" ELSE "False")
            /\ (r = Float(0) /\ pr \in {"UP", "DOWN"}) => flag = "False"

C26_Witness ==
    \E p \in Procs :
        /\ args[p].entry = "sync" /\ pc[p] = "done"
        /\ ctx[p].post_earnings_return = Float(0)
        /\ work[p].prediction = "DOWN"
        /\ work[p].correct = "False"

\* C27: a backtester reply without error comes back with the flag return > 0
\* for UP, return < 0 for DOWN, |return| < 1.0 for NEUTRAL and no flag value
\* for any other prediction; for NEUTRAL and a return of 0.5 the flag is True
\* here while the persistence step's flag for the same number is False.
C27_ValidationFlagWideBand ==
    (enr.validation.client = "returned" /\ enr.validation.result.error = "") =>
        LET r == enr.validation.result.return_pct
            flag == enr.validation.result.prediction_correct IN
        /\ enr.validation.result.prediction = enr.prediction
        /\ enr.prediction = "UP" => flag = (IF r > 0 THEN "True" ELSE "False")
        /\ enr.prediction = "DOWN" => flag = (IF r < 0 THEN "True" ELSE "False")
        /\ enr.prediction = "NEUTRAL" => flag = (IF r < 100 /\ r > -100 THEN "True" ELSE "False")
        /\ enr.prediction \notin {"UP", "DOWN", "NEUTRAL"} => flag = "None"
        /\ (enr.prediction = "NEUTRAL" /\ r = 50) =>
              /\ flag = "True"
              /\ PersistCorrect(Float(10 * r), "NEUTRAL") = "False"

C27_Witness ==
    /\ enr.pc = "done"
    /\ enr.prediction = "NEUTRAL"
    /\ enr.payload.backtester_validation.kind = "dict"
    /\ enr.payload.backtester_validation.error = ""
    /\ enr.payload.backtester_validation.return_pct = 50
    /\ enr.payload.backtester_validation.prediction_correct = "True"

\* C29: the enrichment returns only when both coroutines are done; with both
\* flags on both clients are called, and a client that raised leaves the other
\* call's result in the payload; with a flag off the client is not called and
\* the payload has no key for it.
C29_FanOutJoinsBoth ==
    /\ enr.pc = "done" => enr.metrics.pc = "done" /\ enr.validation.pc = "done"
    /\ (enr.pc = "done" /\ flags.metrics /\ flags.validation) =>
          /\ enr.metrics.client \in {"returned", "raised"}
          /\ enr.validation.client \in {"returned", "raised"}
          /\ enr.metrics.client = "returned" =>
                enr.payload.performance_metrics = enr.metrics.result
          /\ enr.validation.client = "returned" =>
                enr.payload.backtester_validation = enr.validation.result
    /\ (enr.metrics.pc = "done" /\ ~flags.metrics) =>
          /\ enr.metrics.client = "not_called"
          /\ enr.payload.performance_metrics = Absent
    /\ (enr.validation.pc = "done" /\ ~flags.validation) =>
          /\ enr.validation.client = "not_called"
          /\ enr.payload.backtester_validation = Absent

C29_Witness ==
    /\ enr.pc = "done" /\ flags.metrics /\ flags.validation
    /\ enr.metrics.client = "raised"
    /\ enr.validation.client = "returned"
    /\ enr.payload.backtester_validation = enr.validation.result
    /\ enr.payload.backtester_validation.prediction_correct = "False"

\* the integer of the leftmost "Direction: <integer>" of a drawn summary, -1 if none
FirstScore(input) ==
    IF input = None THEN -1
    ELSE IF input.lead.score >= 0 THEN input.lead.score
    ELSE IF input.mid.score >= 0 THEN input.mid.score
    ELSE input.tail.score
\* some piece of a drawn summary holds a keyword of the given tone
HasTone(input, tone) ==
    /\ input # None
    /\ tone \in {input.lead.tone, input.mid.tone, input.tail.tone}

\* C21: the prediction is always UP, DOWN or UNKNOWN; for a summary whose
\* leftmost "Direction: n" has n in 6..10 it is UP and for n in 0..5 (5
\* included) it is DOWN, with confidence n/10, whatever keywords the summary
\* holds.
C21_ScoreDecidesDirection ==
    br.pc = "done" =>
        /\ br.out.prediction \in {"UP", "DOWN", "UNKNOWN"}
        /\ FirstScore(br.input) \in 6..10 => br.out.prediction = "UP"
        /\ FirstScore(br.input) \in 0..5 => br.out.prediction = "DOWN"
        /\ FirstScore(br.input) \in 0..10 =>
              br.out.confidence = Float(100 * FirstScore(br.input))

C21_Witness ==
    /\ br.pc = "done"
    /\ FirstScore(br.input) = 5
    /\ HasTone(br.input, "bullish")
    /\ br.out = [prediction |-> "DOWN", confidence |-> Float(500)]

\* C22: the confidence of every summary is absent or between 0 and 1.
C22_ConfidenceInUnitInterval ==
    br.pc = "done" =>
        \/ br.out.confidence = None
        \/ br.out.confidence.milli >= 0 /\ br.out.confidence.milli <= 1000

\* C30: without a "Direction: <integer>" match an absent or empty summary
\* gives (UNKNOWN, absent), a bullish keyword in any letter case (UP, 0.6),
\* a bearish keyword without a bullish one (DOWN, 0.4), and anything else
\* (UNKNOWN, absent).
C30_KeywordFallback ==
    (br.pc = "done" /\ FirstScore(br.input) = -1) =>
        br.out =
            IF br.summary = None \/ br.summary.chars = <<>>
            THEN [prediction |-> "UNKNOWN", confidence |-> None]
            ELSE IF HasTone(br.input, "bullish")
            THEN [prediction |-> "UP", confidence |-> Float(600)]
            ELSE IF HasTone(br.input, "bearish")
            THEN [prediction |-> "DOWN", confidence |-> Float(400)]
            ELSE [prediction |-> "UNKNOWN", confidence |-> None]

C30_Witness ==
    /\ br.pc = "done"
    /\ br.input # None
    /\ FirstScore(br.input) = -1
    /\ br.input.lead.tone = "bearish"
    /\ br.input.tail.tone = "bullish"
    /\ br.out = [prediction |-> "UP", confidence |-> Float(600)]

\* the fields of a drawn record as they are written: the integer of a count
\* (-1: missing or not an integer), a risk category, a YES flag
WrittenInt(v) ==
    IF v.kind = "int" THEN v.v
    ELSE IF v = Str(<<"8">>) THEN 8
    ELSE IF v = Str(<<"0">>) THEN 0
    ELSE -1
CountsWritten(rec) ==
    /\ WrittenInt(rec.DirectionScore) >= 0
    /\ WrittenInt(rec.HardVetoCount) >= 0
    /\ WrittenInt(rec.HardPositivesCount) >= 0
RiskWrittenHigh(v) == v \in {Str(<<"H", "i", "g", "h">>), Str(<<"H", "I", "G", "H">>)}
PassesBasicRule(rec) ==
    /\ CountsWritten(rec)
    /\ rec.PricedInRisk.kind = "str"
    /\ WrittenInt(rec.DirectionScore) >= 8
    /\ WrittenInt(rec.HardVetoCount) = 0
    /\ WrittenInt(rec.HardPositivesCount) >= 2
    /\ ~RiskWrittenHigh(rec.PricedInRisk)
WrittenYes(v) == v \in {Str(<<"Y", "E", "S">>), Str(<<"y", "e", "s">>)}
NonTechSectors == {None, Str(<<>>), Str(<<"E", "n", "e", "r", "g", "y">>)}
TechSectors == {Str(<<"T", "e", "c", "h", "n", "o", "l", "o", "g", "y">>), Str(<<"I", "n", "f", "o", " ", "T", "E", "C", "H", "N", "O", "L", "O", "G", "Y">>)}
NormaliseDone == br.pc = "done" /\ br.long_json # None

\* C23: for a record with its counts and risk written and a sector without
\* "technology", trade_long is true exactly when score >= 8, veto = 0,
\* positives >= 2 and the risk is not High in any letter case; a non-zero veto
\* count gives false for every sector and every other field of integer or
\* text form; and the same record with the risk changed from Low to High
\* gives false, the prediction of a "Direction: 8" summary being UP in both.
C23_BasicRule ==
    NormaliseDone =>
        /\ ( /\ br.sector \in NonTechSectors
             /\ CountsWritten(br.long_json)
             /\ br.long_json.PricedInRisk.kind = "str" ) =>
               /\ br.out.kind = "dict"
               /\ br.out.trade_long = PassesBasicRule(br.long_json)
        /\ ( /\ WrittenInt(br.long_json.HardVetoCount) > 0
             /\ br.long_json.DirectionScore # JInfinity ) =>
               /\ br.out.kind = "dict"
               /\ br.out.trade_long = FALSE
        /\ ( /\ br.out.kind = "dict"
             /\ br.out.trade_long
             /\ br.sector \in NonTechSectors
             /\ br.long_json.PricedInRisk = Str(<<"L", "o", "w">>) ) =>
               /\ compute_trade_long([br.long_json EXCEPT !.PricedInRisk = Str(<<"H", "i", "g", "h">>)],
                                     br.sector) = TradeReturned(FALSE)
               /\ br.summary = Str(<<"D", "i", "r", "e", "c", "t", "i", "o", "n", ":", " ", "8">>) => br.out.prediction = "UP"

C23_Witness ==
    /\ NormaliseDone
    /\ br.summary = Str(<<"D", "i", "r", "e", "c", "t", "i", "o", "n", ":", " ", "8">>)
    /\ br.sector = Str(<<"E", "n", "e", "r", "g", "y">>)
    /\ br.long_json.DirectionScore = JInt(8)
    /\ br.long_json.HardVetoCount = JInt(0)
    /\ br.long_json.HardPositivesCount = JInt(2)
    /\ br.long_json.PricedInRisk = Str(<<"L", "o", "w">>)
    /\ br.out.kind = "dict"
    /\ br.out.trade_long
    /\ br.out.prediction = "UP"

C25_NeverRaisesFalseOnMalformed ==
    br.pc = "done" =>
        /\ br.out.kind = "dict"
        /\ ( \/ br.long_json = None
             \/ Absent \in {br.long_json.DirectionScore, br.long_json.HardVetoCount,
                            br.long_json.HardPositivesCount, br.long_json.PricedInRisk}
             \/ ~CountsWritten(br.long_json) ) => br.out.trade_long = FALSE

\* C28: on the async path a retry delay in progress runs on a worker thread,
\* not on the scheduler thread, and every other task whose next step runs on
\* the scheduler can take that step while the delay lasts.
C28_DelayOffScheduler ==
    \A p \in Procs :
        (Sleeping(p) /\ args[p].entry = "async") =>
            /\ Exec(args[p].entry, "time.sleep") = "worker"
            /\ \A q \in Procs \ {p} :
                 /\ SchedulerFree(q)
                 /\ pc[q] = "context" => ENABLED DelayContext(q)
                 /\ pc[q] = "t1_write" => ENABLED DelayT1Write(q)

C28_Witness ==
    \E p \in Procs : \E q \in Procs \ {p} :
        /\ args[p].entry = "async" /\ args[q].entry = "async"
        /\ pc[p] = "hist_sleep" /\ retry[p].attempts = 1
        /\ pc[q] = "live_sleep" /\ retry[q].attempts = 2

\* C37: for every record and sector, writing any other LongEligible verdict
\* into the record leaves the result of the trade_long rule as it is.
C37_LongEligibleNotRead ==
    (br.pc = "done" /\ br.long_json # None) =>
        \A le \in LongEligibles :
            LET other == compute_trade_long([br.long_json EXCEPT !.LongEligible = le],
                                            br.sector)
            IN IF br.out.kind = "raised" THEN other = br.out
               ELSE other = TradeReturned(br.out.trade_long)

C37_Witness ==
    /\ br.pc = "done"
    /\ br.long_json # None
    /\ br.long_json.LongEligible = Str(<<"N", "O">>)
    /\ br.out.kind = "dict"
    /\ br.out.trade_long

\* a block's annotation is a record
IsRecord(x) == x \notin {Fails, Raises, NoMatch, None}
\* the fenced block of the drawn summary is missing or is found and not parsed
FencedGivesNothing == br.input.fenced.fenced \in {Fails, None}
\* the extraction of the drawn summary: fenced first, raw second, absent when
\* both fail
ExtractionOrder ==
    /\ IsRecord(br.input.fenced.fenced) => br.long_json = br.input.fenced.fenced
    /\ ( /\ FencedGivesNothing
         /\ IsRecord(br.input.raw.raw)
         /\ br.input.raw_first \/ br.input.fenced = NoBlock ) =>
           br.long_json = br.input.raw.raw
    /\ (FencedGivesNothing /\ br.input.raw.raw \in {Fails, NoMatch, None}) =>
           br.long_json = None

\* C31: the fenced block is tried first and the raw object second, a fenced
\* block that does not parse leaves the raw attempt to be made, both failing
\* gives absent, and no failure of the parser reaches the caller.
C31_ExtractionNeverRaises ==
    br.pc = "done" => (br.out.kind # "raised" /\ ExtractionOrder)

\* C33: a returned trade_long of true comes with the prediction UP.
C33_TradeLongImpliesUp ==
    (br.pc = "done" /\ br.out.kind = "dict" /\ br.out.trade_long) =>
        br.out.prediction = "UP"

\* the collaborator calls that change a tier or the persisted records, and the
\* backtest
EffectOps == {"record_analysis", "compute_earnings_backtest", "set_cached_payload",
              "cache_set_json"}
\* the step taken is invocation p making a call of EffectOps that returned
MadeEffectCall(p) ==
    /\ Len(log'[p]) = Len(log[p]) + 1
    /\ log'[p][Len(log'[p])].op \in EffectOps
    /\ log'[p][Len(log'[p])].ok
\* p has ended in failure having called none of EffectOps
FailedWithoutEffect(p) ==
    (Async(p) /\ pc[p] = "fail") =>
        \A i \in 1..Len(log[p]) : log[p][i].op \notin EffectOps
\* every step that changes a tier or the persisted records is a returned call
\* of EffectOps, and a failed invocation has made no such call
FailureFrame ==
    /\ (tier1' # tier1 \/ tier2' # tier2 \/ persisted' # persisted) =>
           \E p \in Procs : MadeEffectCall(p)
    /\ \A p \in Procs : FailedWithoutEffect(p)'

\* C34: an invocation of analyze_earnings_async that ends in failure has not
\* invoked persistence or the backtest and has written neither cache tier, so
\* both tiers and the persisted records are as they were when it started.
C34_FailureLeavesStateUntouched == [][FailureFrame]_vars

\* a failed prediction call of a second invocation, the tiers and the records
\* filled by the first
C34_Witness ==
    \E p \in Procs :
        /\ Async(p) /\ pc[p] = "fail"
        /\ ret[p].stage = "run_single_call_from_context"
        /\ persisted # {}
        /\ \E k \in T2Keys : tier2[k] # None
        /\ \E k \in T1Keys : tier1[k] # None

\* the two keys the enrichment adds to the payload
EnrichmentKeys == {"performance_metrics", "backtester_validation"}
\* no entry of either tier holds a key of the enrichment
CachedWithoutEnrichment ==
    /\ \A k \in T1Keys : DOMAIN tier1[k] \cap EnrichmentKeys = {}
    /\ \A k \in T2Keys : DOMAIN tier2[k] \cap EnrichmentKeys = {}
\* the base analysis ran the pipeline and made its Tier-2 write, then its
\* Tier-1 write
BothWritesMade(p) ==
    \E i, j \in 1..Len(log[p]) :
        /\ i < j
        /\ log[p][i].op = "set_cached_payload"
        /\ log[p][j].op = "cache_set_json"
\* the base analysis returned a payload found in Tier 1 or in Tier 2
ServedFromCache(p) ==
    /\ pc[p] = "done"
    /\ ~ContextBuilt(p)
    /\ ret[p].payload \in {seen[p].t1, seen[p].t2}
\* the enrichment is over and both client calls were made on this payload
EnrichedFrom(payload) ==
    /\ enr.pc = "done"
    /\ enr.payload.base = payload
    /\ enr.metrics.client # "not_called"
    /\ enr.validation.client # "not_called"
\* what holds of the writes, the tiers and a call served from a cache hit
ServicesState ==
    /\ (EnrichmentStarted /\ ContextBuilt(Caller) /\ pc[Caller] = "done") =>
           BothWritesMade(Caller)
    /\ CachedWithoutEnrichment
    /\ ( /\ ServedFromCache(Caller)
         /\ enr.pc = "done"
         /\ ret[Caller].payload.transcript_date # "" ) =>
           EnrichedFrom(ret[Caller].payload)
\* no step taken after the enrichment started writes a tier, and the state
\* reached is as ServicesState says
ServicesOrder ==
    /\ EnrichmentStarted => UNCHANGED <<tier1, tier2>>
    /\ ServicesState'

\* C35: in analyze_earnings_with_services both cache writes are made before the
\* enrichment starts and none after it, no entry of either tier ever holds
\* performance_metrics or backtester_validation, and a call served from a cache
\* hit (its payload carrying an earnings date, as the first enrichment needed)
\* makes both enrichment calls again on the cached payload.
C35_EnrichmentNeverCached == [][ServicesOrder]_vars

\* a call served from Tier 1 whose enrichment filled both keys, the entry of
\* Tier 1 still without them
C35_Witness ==
    /\ ServedFromCache(Caller)
    /\ IsHit(seen[Caller].t1)
    /\ EnrichedFrom(seen[Caller].t1)
    /\ enr.payload.performance_metrics # Absent
    /\ enr.payload.backtester_validation # Absent
    /\ tier1[CacheKey(args[Caller].symbol, args[Caller].year, args[Caller].quarter)]
           = seen[Caller].t1

\* a fresh run whose enrichment is over, both cache writes made before it
C35_FreshWitness ==
    /\ ContextBuilt(Caller)
    /\ BothWritesMade(Caller)
    /\ enr.pc = "done"
    /\ enr.payload.performance_metrics # Absent

(* ------- concurrent invocations for one key, forced refresh or not ------- *)
\* a task calls analyze_earnings_async(symbol, year, quarter, skip_cache=...)
\* while the other task may be running
SameKeyStart(p) ==
    /\ pc[p] = "idle"
    /\ \E r \in SameKeyRequests, skip_cache \in BOOLEAN :
        /\ args' = [args EXCEPT ![p] = [entry |-> "async", symbol |-> r[1], year |-> r[2],
                                        quarter |-> r[3], skip_cache |-> skip_cache]]
        /\ pc' = [pc EXCEPT ![p] = FirstStep("async", skip_cache)]
    /\ started' = started + 1
    /\ UNCHANGED <<shared, nextJob, seen, ctx, retry, work, ret, log>>

NextSameKey ==
    \E p \in Procs :
        \/ SameKeyStart(p)
        \/ T1Read(p)
        \/ T2Read(p)
        \/ T1Backfill(p)
        \/ Context(p)
        \/ GuardSkipOn(p)
        \/ Predict(p)
        \/ Persist(p)
        \/ Backtest(p)
        \/ T2Write(p)
        \/ T1Write(p)

SpecSameKey == Init /\ [][NextSameKey]_vars

\* the one key of SameKeyRequests in each tier
SameKeyT1 == CacheKey(<<"A">>, 2024, 1)
SameKeyT2 == DbKey(<<"A">>, 2024, 1)
\* every invocation has been made and is over
AllCompleted == \A p \in Procs : pc[p] \in {"done", "fail"}
\* every cache write made so far returned
EveryCacheWriteSucceeded ==
    \A p \in Procs : \A i \in 1..Len(log[p]) :
        log[p][i].op \in {"set_cached_payload", "cache_set_json"} => log[p][i].ok

\* C32: once concurrent invocations of analyze_earnings_async for one key,
\* with and without forced refresh, have all run to completion with every
\* cache write succeeding, Tier 1 and Tier 2 hold the same payload for the key.
C32_TiersAgreeAfterCompletion ==
    (AllCompleted /\ EveryCacheWriteSucceeded) => tier1[SameKeyT1] = tier2[SameKeyT2]

(* ---------- one invocation whose collaborator calls all come back -------- *)
\* the tiers are as earlier calls may have left them (InitServices)
\* the first call of analyze_earnings_async
FairStart(p) == Start(p) /\ started = 0 /\ args'[p].entry = "async"

\* a step of the invocation: the collaborator call it waits for returns or
\* raises and the code up to the next call runs
PipelineStep(p) ==
    \/ T1Read(p)
    \/ T2Read(p)
    \/ T1Backfill(p)
    \/ Context(p)
    \/ Guard(p)
    \/ Hist(p)
    \/ Live(p)
    \/ Predict(p)
    \/ Persist(p)
    \/ Backtest(p)
    \/ T2Write(p)
    \/ T1Write(p)

NextFair == \E p \in Procs : FairStart(p) \/ PipelineStep(p)

\* every collaborator call returns or raises: a step that can be taken is taken
SpecFair ==
    InitServices /\ [][NextFair]_vars /\ \A p \in Procs : WF_vars(PipelineStep(p))

\* the place of a step in the single pass of analyze_earnings_async
StepRank(step) ==
    CASE step = "idle" -> 0
      [] step = "t1_read" -> 1
      [] step = "t2_read" -> 2
      [] step = "t1_backfill" -> 3
      [] step = "context" -> 4
      [] step = "guard" -> 5
      [] step = "hist" -> 6
      [] step = "live" -> 7
      [] step = "predict" -> 8
      [] step = "persist" -> 9
      [] step = "backtest" -> 10
      [] step = "t2_write" -> 11
      [] step = "t1_write" -> 12
      [] step = "done" -> 13
      [] step = "fail" -> 14
\* calls of op made by the invocation so far
Attempts(p, op) == Cardinality({i \in 1..Len(log[p]) : log[p][i].op = op})
\* neither ingestion call has been made more than RetryAttempts times
IngestAttemptsBounded ==
    \A p \in Procs : \A op \in IngestOps : Attempts(p, op) <= RetryAttempts
\* a step of an invocation leads to a later step, or stays in an ingestion
\* step for its next attempt; DONE and FAIL are left by no step
NoStepReentered ==
    \A p \in Procs :
        /\ pc'[p] # pc[p] => StepRank(pc'[p]) > StepRank(pc[p])
        /\ pc[p] \in {"done", "fail"} => pc'[p] = pc[p]
\* an invocation that has started reaches DONE or FAIL
EventuallyOver ==
    \A p \in Procs : (pc[p] # "idle") ~> (pc[p] \in {"done", "fail"})

\* C36: when every collaborator call returns or raises, every invocation of
\* analyze_earnings_async eventually reaches DONE or FAIL, each ingestion step
\* is attempted at most 3 times, and no step is entered again once left.
C36_InvocationTerminates ==
    /\ EventuallyOver
    /\ []IngestAttemptsBounded
    /\ [][NoStepReentered]_vars

\* an invocation that is over after three failed attempts of each ingestion
\* call
C36_Witness ==
    \E p \in Procs :
        /\ pc[p] = "done"
        /\ Attempts(p, "ingest_recent_history_into_neo4j") = RetryAttempts
        /\ Attempts(p, "ingest_context_into_neo4j") = RetryAttempts
        /\ FailedAttempts(p, "ingest_context_into_neo4j") = RetryAttempts

====
